---------------------------- MODULE Spec2Model ----------------------------
(***************************************************************************)
(* Model of the food-catalog synonym scrapers:                             *)
(*   src/scrape_wikisearch_synonyms.py  (knowledge-graph pipeline)         *)
(*   src/scrape_opentree_synonyms.py    (taxonomic pipeline)               *)
(* Strings are TLC strings; a character is a string of length one.         *)
(***************************************************************************)
EXTENDS Integers, Sequences, FiniteSets, TLC

VARIABLES
    fn,     \* pure-function harness: name of the function under evaluation
    arg,    \* pure-function harness: its input
    ret,    \* pure-function harness: its result, or Pending
    file,               \* ndm_foods.csv on disk: the sequence of its rows
    pc,                 \* position of the running pipeline
    runs_left,          \* pipeline runs still to be started
    pipeline,           \* the script that runs, or ran last: "wiki", "otol", "none"
    rows,               \* main: list(reader)
    name_candidates,    \* main: key -> candidate queries, in insertion order
    title_to_keys,      \* main: primary title -> keys, in insertion order
    key_to_entity,      \* key -> entity
    key_to_qid,         \* key -> identifier
    qid_to_entity,      \* the entity cache: identifier -> entity
    unmatched,          \* fetch_entities_for_titles: set of unmatched keys
    unresolved_titles,  \* fetch_entities_for_titles: titles queued for retry (a set)
    sorted_titles,      \* fetch_entities_for_titles: sorted(unresolved_titles)
    single_title_cache, \* fetch_entities_for_titles: title -> (qid, entity)
    start,              \* index of the next batch or item of the running loop
    query_cache,        \* main: query -> identifier or None
    fallback_qids,      \* main: key -> identifier found by search, in insertion order
    searched,           \* main: keys of unmatched_keys the search loop has visited
    qids_list,          \* fetch_entities: the identifiers to fetch
    entities,           \* fetch_entities: the entities fetched so far
    entity_data,        \* main: copy of the cache plus the referenced entities
    formatted_names,    \* taxonomic main: normalized scientific name of each row
    unique_names,       \* taxonomic main: sorted distinct non-empty names
    synonyms_cache,     \* taxonomic main: name -> joined synonyms
    original,           \* history: the table before any run
    input,              \* history: the table the running pipeline read
    writes,             \* history: times the running pipeline wrote the table
    requests,           \* history: the remote requests of the call or loop in progress
    failed_batches,     \* history: start indexes of the bulk batches that failed in it
    written             \* history: last column each pipeline wrote

pureVars == <<fn, arg, ret>>
tableVars == <<file, pc, runs_left, pipeline, rows, original, input, writes, requests,
              failed_batches, written>>
wikiVars == <<name_candidates, title_to_keys, key_to_entity, key_to_qid, qid_to_entity,
              unmatched, unresolved_titles, sorted_titles, single_title_cache, start,
              query_cache, fallback_qids, searched, qids_list, entities, entity_data>>
otolVars == <<formatted_names, unique_names, synonyms_cache>>
vars == <<pureVars, tableVars, wikiVars, otolVars>>

\* the harness's result: not yet computed, or computed with a value
Pending == [done |-> FALSE]
Returned(v) == [done |-> TRUE, value |-> v]

\* Python's None where a dict is expected
None == [none |-> TRUE]
\* Optional[str]: <<>> is None, <<s>> is the string s
NoStr == <<>>
Some(s) == <<s>>

(***************************************************************************)
(* Strings                                                                 *)
(***************************************************************************)

\* The characters the model's names are written in, in code-point order.
CodePoints == " .0123456789;ABCDEFGHIJKLMNOPQRSTUVWXYZ_abcdefghijklmnopqrstuvwxyz"

Uppers == "ABCDEFGHIJKLMNOPQRSTUVWXYZ"
Lowers == "abcdefghijklmnopqrstuvwxyz"

CharAt(s, i) == SubSeq(s, i, i)

IndexIn(c, table) ==
    IF \E i \in 1..Len(table) : CharAt(table, i) = c
    THEN CHOOSE i \in 1..Len(table) : CharAt(table, i) = c
    ELSE 0

\* str.isspace for the characters of CodePoints
IsSpace(c) == c = " "

RECURSIVE MapChars(_, _, _)
MapChars(s, from, to) ==
    IF s = "" THEN ""
    ELSE (IF Head(s) = from THEN to ELSE CharAt(s, 1)) \o MapChars(Tail(s), from, to)

\* str.replace(from, to) for single characters
replace(s, from, to) == MapChars(s, from, to)

RECURSIVE lstrip(_)
lstrip(s) == IF s # "" /\ IsSpace(CharAt(s, 1)) THEN lstrip(Tail(s)) ELSE s

RECURSIVE rstrip(_)
rstrip(s) ==
    IF s # "" /\ IsSpace(CharAt(s, Len(s)))
    THEN rstrip(SubSeq(s, 1, Len(s) - 1))
    ELSE s

\* str.strip()
strip(s) == rstrip(lstrip(s))

LowerChar(c) ==
    LET i == IndexIn(c, Uppers) IN IF i = 0 THEN c ELSE CharAt(Lowers, i)

RECURSIVE lower(_)
\* str.lower()
lower(s) == IF s = "" THEN "" ELSE LowerChar(CharAt(s, 1)) \o lower(Tail(s))

\* str.endswith(suffix)
endswith(s, suffix) ==
    /\ Len(suffix) <= Len(s)
    /\ SubSeq(s, Len(s) - Len(suffix) + 1, Len(s)) = suffix

\* index of the last occurrence of character c in s, 0 when absent
LastIndexOf(s, c) ==
    IF \E i \in 1..Len(s) : CharAt(s, i) = c
    THEN CHOOSE i \in 1..Len(s) :
            /\ CharAt(s, i) = c
            /\ \A j \in (i + 1)..Len(s) : CharAt(s, j) # c
    ELSE 0

\* s.rsplit(c, 1)[0]
rsplit1_head(s, c) ==
    LET i == LastIndexOf(s, c) IN IF i = 0 THEN s ELSE SubSeq(s, 1, i - 1)

\* Python's str ordering: by code point, a proper prefix first
RECURSIVE StrLess(_, _)
StrLess(s, t) ==
    IF t = "" THEN FALSE
    ELSE IF s = "" THEN TRUE
    ELSE IF CharAt(s, 1) = CharAt(t, 1) THEN StrLess(Tail(s), Tail(t))
    ELSE IndexIn(CharAt(s, 1), CodePoints) < IndexIn(CharAt(t, 1), CodePoints)

(***************************************************************************)
(* Sequences                                                               *)
(***************************************************************************)

Range(seq) == {seq[i] : i \in 1..Len(seq)}

RECURSIVE FromKeysFrom(_, _)
FromKeysFrom(seq, seen) ==
    IF seq = <<>> THEN <<>>
    ELSE IF Head(seq) \in seen THEN FromKeysFrom(Tail(seq), seen)
    ELSE <<Head(seq)>> \o FromKeysFrom(Tail(seq), seen \cup {Head(seq)})

\* list(OrderedDict.fromkeys(seq)): first occurrences, in order
OrderedFromKeys(seq) == FromKeysFrom(seq, {})

\* the sequences over S of length at most n
SeqsUpTo(S, n) == UNION {[1..k -> S] : k \in 0..n}

\* [x for x in seq if x]
NonEmptyOnly(seq) == SelectSeq(seq, LAMBDA x : x # "")

\* sorted(set of strings)
SortedStrings(S) ==
    IF S = {} THEN <<>>
    ELSE LET any == CHOOSE f \in [1..Cardinality(S) -> S] : Range(f) = S
         IN SortSeq(any, StrLess)

(***************************************************************************)
(* Name Normalizer & Key Builder                                           *)
(***************************************************************************)

format_scientific_name(name) == strip(replace(name, "_", " "))

format_common_name(name) == strip(replace(name, "_", " "))

\* str(int) for the row indexes of the model
Digits == "0123456789"
RECURSIVE str(_)
str(n) ==
    IF n < 10 THEN CharAt(Digits, n + 1)
    ELSE str(n \div 10) \o CharAt(Digits, (n % 10) + 1)

\* a key built from the names as they are in the table
build_key_raw(scientific, common, fallback_index) ==
    IF strip(scientific) # "" THEN <<"sci", scientific>>
    ELSE IF strip(common) # "" THEN <<"com", common>>
    ELSE <<"row", str(fallback_index)>>

\* a key whose fallback is tagged like a scientific name
build_key_untagged(scientific, common, fallback_index) ==
    LET sci == format_scientific_name(scientific)
        com == format_common_name(common)
    IN IF sci # "" THEN <<"sci", sci>>
       ELSE IF com # "" THEN <<"com", com>>
       ELSE <<"sci", str(fallback_index)>>

\* build_key, lines 39-49
build_key(scientific, common, fallback_index) ==
    LET sci == format_scientific_name(scientific)
        com == format_common_name(common)
    IN IF sci # "" THEN <<"sci", sci>>
       ELSE IF com # "" THEN <<"com", com>>
       ELSE <<"row", str(fallback_index)>>

(***************************************************************************)
(* Candidate Query Generator                                               *)
(***************************************************************************)

\* the list built by lines 53-66, before deduplication
RawCandidates(scientific, common) ==
    LET sci == format_scientific_name(scientific)
        com == format_common_name(common)
        low == lower(sci)
    IN  (IF sci # ""
         THEN <<sci>>
              \o (IF endswith(sci, ".") THEN <<SubSeq(sci, 1, Len(sci) - 1)>> ELSE <<>>)
              \o (IF \/ endswith(low, " sp.") \/ endswith(low, " sp")
                     \/ endswith(low, " spp.") \/ endswith(low, " spp")
                  THEN <<rsplit1_head(sci, " ")>>
                  ELSE <<>>)
         ELSE <<>>)
        \o (IF com # "" THEN <<com>> ELSE <<>>)

candidate_queries_nodedup(scientific, common) ==
    NonEmptyOnly(RawCandidates(scientific, common))

candidate_queries(scientific, common) ==
    OrderedFromKeys(NonEmptyOnly(RawCandidates(scientific, common)))


(***************************************************************************)
(* Match Selection, taxonomic path (scrape_opentree_synonyms.py)           *)
(***************************************************************************)

\* m.get("score", 0); a score is modelled in hundredths
ScoreOf(m) == m.score

RECURSIVE InsertDesc(_, _)
\* insert m after every element whose score is >= its own
InsertDesc(sorted, m) ==
    IF sorted = <<>> THEN <<m>>
    ELSE IF ScoreOf(Head(sorted)) >= ScoreOf(m)
         THEN <<Head(sorted)>> \o InsertDesc(Tail(sorted), m)
         ELSE <<m>> \o sorted

RECURSIVE SortedByScoreDesc(_)
\* sorted(matches, key=score, reverse=True): stable, equal scores keep their order
SortedByScoreDesc(matches) ==
    IF matches = <<>> THEN <<>>
    ELSE InsertDesc(SortedByScoreDesc(SubSeq(matches, 1, Len(matches) - 1)),
                    matches[Len(matches)])

\* first element of seq satisfying P, None when there is none
FirstWhere(seq, P(_)) ==
    IF \E i \in 1..Len(seq) : P(seq[i])
    THEN seq[CHOOSE i \in 1..Len(seq) : P(seq[i]) /\ \A j \in 1..(i - 1) : ~P(seq[j])]
    ELSE None

select_best_match_by_score_only(matches) ==
    IF matches = <<>> THEN None ELSE SortedByScoreDesc(matches)[1]

select_best_match(matches) ==
    IF matches = <<>> THEN None
    ELSE LET sorted_matches == SortedByScoreDesc(matches)
             exact == FirstWhere(sorted_matches,
                        LAMBDA m : ~m.is_synonym /\ ~m.is_approximate_match)
             nonsyn == FirstWhere(sorted_matches, LAMBDA m : ~m.is_synonym)
         IN IF exact # None THEN exact
            ELSE IF nonsyn # None THEN nonsyn
            ELSE sorted_matches[1]

(***************************************************************************)
(* Synonym Cleaner (scrape_wikisearch_synonyms.py, main, lines 457-474)    *)
(***************************************************************************)

\* aliases + [label for label in synonym_labels if label]
Combined(aliases, synonym_labels) ==
    aliases \o [i \in 1..Len(SelectSeq(synonym_labels, LAMBDA l : l # NoStr /\ l # Some(""))) |->
                   SelectSeq(synonym_labels, LAMBDA l : l # NoStr /\ l # Some(""))[i][1]]

RECURSIVE FilterLoop(_, _, _, _)
\* the loop of lines 463-472
FilterLoop(combined, canonical_lower, filtered, seen_lower) ==
    IF combined = <<>> THEN filtered
    ELSE LET item_clean == strip(Head(combined))
             item_lower == lower(item_clean)
         IN IF item_clean = ""
            THEN FilterLoop(Tail(combined), canonical_lower, filtered, seen_lower)
            ELSE IF item_lower = canonical_lower
            THEN FilterLoop(Tail(combined), canonical_lower, filtered, seen_lower)
            ELSE IF item_lower \notin seen_lower
            THEN FilterLoop(Tail(combined), canonical_lower,
                            Append(filtered, item_clean), seen_lower \cup {item_lower})
            ELSE FilterLoop(Tail(combined), canonical_lower, filtered, seen_lower)

RECURSIVE DedupeLoop(_, _)
\* dedupe_preserve_order: trims and drops exact repeats only
DedupeLoop(values, ordered) ==
    IF values = <<>> THEN ordered
    ELSE LET cleaned == strip(Head(values))
         IN IF cleaned = "" \/ cleaned \in Range(ordered)
            THEN DedupeLoop(Tail(values), ordered)
            ELSE DedupeLoop(Tail(values), Append(ordered, cleaned))

dedupe_preserve_order(values) == DedupeLoop(values, <<>>)

\* a cleaner that forgets the canonical name and the case folding
filtered_synonyms_exact_only(key, combined) == dedupe_preserve_order(combined)

\* the list `filtered` of lines 460-472 for one key
filtered_synonyms(key, combined) ==
    FilterLoop(combined, lower(key[2]), <<>>, {})

RECURSIVE Join(_, _)
\* sep.join(items)
Join(items, sep) ==
    IF items = <<>> THEN ""
    ELSE IF Len(items) = 1 THEN items[1]
    ELSE items[1] \o sep \o Join(Tail(items), sep)

(***************************************************************************)
(* Dictionaries.  An insertion-ordered dict whose order the code reads is  *)
(* a sequence of <<key, value>> pairs; any other dict is a function.       *)
(***************************************************************************)

EmptyDict == <<>>

Keys(d) == [i \in 1..Len(d) |-> d[i][1]]
Values(d) == [i \in 1..Len(d) |-> d[i][2]]
Has(d, k) == \E i \in 1..Len(d) : d[i][1] = k
Get(d, k) == d[CHOOSE i \in 1..Len(d) : d[i][1] = k][2]

\* d.setdefault(k, v)
SetDefault(d, k, v) == IF Has(d, k) THEN d ELSE Append(d, <<k, v>>)

\* d.setdefault(k, []).append(x)
AppendTo(d, k, x) ==
    IF Has(d, k)
    THEN [i \in 1..Len(d) |-> IF d[i][1] = k THEN <<k, Append(d[i][2], x)>> ELSE d[i]]
    ELSE Append(d, <<k, <<x>>>>)

\* d[k] = v on a function-valued dict
Put(d, k, v) == (k :> v) @@ d

RECURSIVE PutAll(_, _, _)
\* for k in ks: d[k] = v
PutAll(d, ks, v) == IF ks = <<>> THEN d ELSE PutAll(Put(d, Head(ks), v), Tail(ks), v)

\* a slice that stops one element short
Slice_short(seq, from, size) ==
    SubSeq(seq, from + 1, from + size - 1)

\* seq[from : from + size] with a 0-based from
Slice(seq, from, size) ==
    SubSeq(seq, from + 1, IF from + size < Len(seq) THEN from + size ELSE Len(seq))

RECURSIVE Concat(_)
Concat(seqs) == IF seqs = <<>> THEN <<>> ELSE Head(seqs) \o Concat(Tail(seqs))

(***************************************************************************)
(* The table                                                               *)
(***************************************************************************)

OPEN_TREE_FIELD == "synonyms_open_tree_of_life"
WIKI_FIELD == "synonyms_wiki_search"
NCBI_FIELD == "synonyms_ncbi"

\* reader.fieldnames[0] of the modelled table
index_field == "id"

Fieldnames == {index_field, "food_com", "food_sci", OPEN_TREE_FIELD, WIKI_FIELD, NCBI_FIELD}

\* an output row that does not carry the third synonym column over
UpdatedRow_without_ncbi(row, field, value) ==
    [f \in Fieldnames |-> IF f = field THEN value
                          ELSE IF f = NCBI_FIELD THEN "" ELSE row[f]]

\* an output row that starts the synonym columns afresh
UpdatedRow_fresh_synonyms(row, field, value) ==
    [f \in Fieldnames |-> IF f = field THEN value
                          ELSE IF f \in {OPEN_TREE_FIELD, WIKI_FIELD} THEN "" ELSE row[f]]

\* the output row of lines 483-492 (wiki) and 117-126 (taxonomic): the row's own
\* fields, with `field` replaced by `value`
UpdatedRow(row, field, value) ==
    [f \in Fieldnames |-> IF f = field THEN value ELSE row[f]]

(***************************************************************************)
(* The knowledge graph the remote service answers from                     *)
(***************************************************************************)

Claim(snaktype, entity_type, id) ==
    [snaktype |-> snaktype, entity_type |-> entity_type, id |-> id]

KnowledgeGraph ==
    << [id |-> "Q1", missing |-> FALSE, title |-> "", sitelink |-> Some("Zea mays"),
        aliases |-> <<"maize", "Zea Mays", " Maize", "corn">>,
        p1420 |-> <<Claim("value", "item", "Q2"), Claim("somevalue", "item", ""),
                    Claim("value", "item", "Q3")>>,
        label |-> Some("Zea mays")],
       [id |-> "Q2", missing |-> FALSE, title |-> "", sitelink |-> Some("Corn"),
        aliases |-> <<"maize", "Corn">>,
        p1420 |-> <<>>,
        label |-> Some("Indian corn")],
       [id |-> "Q3", missing |-> FALSE, title |-> "", sitelink |-> NoStr,
        aliases |-> <<>>,
        p1420 |-> <<>>,
        label |-> NoStr] >>

\* the entry the service returns for a title or identifier it does not know
MissingEntry(id, title) ==
    [id |-> id, missing |-> TRUE, title |-> title, sitelink |-> NoStr,
     aliases |-> <<>>, p1420 |-> <<>>, label |-> NoStr]

\* props=aliases|claims|sitelinks: no labels
TitleView(e) == [e EXCEPT !.label = NoStr]
\* props=labels|aliases|claims: no sitelinks
IdView(e) == [e EXCEPT !.sitelink = NoStr]

\* the entity whose enwiki page is `title`, as the service resolves it
PageOf(title, normalize) ==
    LET page == replace(title, "_", " ")
        hit(e) == /\ e.sitelink # NoStr
                  /\ IF normalize THEN lower(e.sitelink[1]) = lower(page)
                                  ELSE e.sitelink[1] = page
    IN SelectSeq(KnowledgeGraph, hit)

TitleAnswer(title, normalize) ==
    IF PageOf(title, normalize) # <<>>
    THEN <<TitleView(PageOf(title, normalize)[1])>>
    ELSE <<MissingEntry("-1", title)>>

Failure == [ok |-> FALSE, entities |-> <<>>]
Success(ents) == [ok |-> TRUE, entities |-> ents]

\* what the service may answer to a bulk title request
BulkResponses(batch) ==
    { Failure,
      Success(<<>>),
      Success([i \in 1..Len(batch) |-> MissingEntry("-1", batch[i])]),
      Success(Concat([i \in 1..Len(batch) |-> TitleAnswer(batch[i], FALSE)])),
      Success(Concat([i \in 1..Len(batch) |-> TitleAnswer(batch[i], TRUE)])) }

\* what the service may answer to a single title request with normalize=true
SingleResponses(title) ==
    { Failure,
      Success(<<>>),
      Success(<<MissingEntry("-1", title)>>),
      Success(TitleAnswer(title, TRUE)) }

IdAnswer(qid) ==
    LET hit == SelectSeq(KnowledgeGraph, LAMBDA e : e.id = qid)
    IN IF hit = <<>> THEN <<>> ELSE <<IdView(hit[1])>>

\* what the service may answer to a request for entities by identifier
EntityResponses(batch) ==
    { Failure,
      Success(<<>>),
      Success(Concat([i \in 1..Len(batch) |-> IdAnswer(batch[i])])) }

SearchResult(id, label, match_text) ==
    [id |-> id, label |-> label, match |-> match_text]

\* the ranked results of wbsearchentities for a query
SearchIndex(query) ==
    IF lower(query) = "zea mays"
    THEN <<SearchResult("Q1", "Zea mays", "Zea mays")>>
    ELSE IF lower(query) = "corn"
    THEN <<SearchResult("Q2", "Indian corn", "maize corn"),
           SearchResult("Q1", "Zea mays", "corn")>>
    ELSE IF lower(query) = "maize"
    THEN <<SearchResult("Q1", "Zea mays", "maize"),
           SearchResult("Q2", "Maize", "maize")>>
    ELSE <<>>

SearchFailure == [ok |-> FALSE, search |-> <<>>]
SearchSuccess(results) == [ok |-> TRUE, search |-> results]

SearchResponses(query) ==
    { SearchFailure, SearchSuccess(<<>>), SearchSuccess(SearchIndex(query)) }

(***************************************************************************)
(* Knowledge-graph pipeline (scrape_wikisearch_synonyms.py)                *)
(***************************************************************************)

\* a selection that looks at the matched text before the label
search_entity_id_match_first(query, response) ==
    IF ~response.ok THEN NoStr
    ELSE LET results == response.search
             query_lower == lower(query)
             by_label == SelectSeq(results, LAMBDA r : lower(r.label) = query_lower)
             by_match == SelectSeq(results, LAMBDA r : lower(r.match) = query_lower)
         IN IF results = <<>> THEN NoStr
            ELSE IF by_match # <<>> THEN Some(by_match[1].id)
            ELSE IF by_label # <<>> THEN Some(by_label[1].id)
            ELSE Some(results[1].id)

\* an Optional[str] result of search_entity_id
search_entity_id(query, response) ==
    IF ~response.ok THEN NoStr
    ELSE LET results == response.search
             query_lower == lower(query)
             by_label == SelectSeq(results, LAMBDA r : lower(r.label) = query_lower)
             by_match == SelectSeq(results, LAMBDA r : lower(r.match) = query_lower)
         IN IF results = <<>> THEN NoStr
            ELSE IF by_label # <<>> THEN Some(by_label[1].id)
            ELSE IF by_match # <<>> THEN Some(by_match[1].id)
            ELSE Some(results[1].id)

\* an entity record without the field aliases is an entity without aliases
extract_aliases(entity) ==
    IF "aliases" \notin DOMAIN entity THEN <<>>
    ELSE SelectSeq([i \in 1..Len(entity.aliases) |-> strip(entity.aliases[i])],
                   LAMBDA v : v # "")

\* an entity record without the field p1420 is an entity without P1420 claims
extract_p1420_ids(entity) ==
    IF "p1420" \notin DOMAIN entity THEN <<>>
    ELSE LET usable == SelectSeq(entity.p1420,
                         LAMBDA c : c.snaktype = "value" /\ c.entity_type = "item" /\ c.id # "")
         IN [i \in 1..Len(usable) |-> usable[i].id]

\* entity is None or an entity; the result is an Optional[str]
english_label(entity) ==
    IF entity = None THEN NoStr
    ELSE IF "label" \notin DOMAIN entity THEN NoStr
    ELSE entity.label

RECURSIVE NameCandidatesFrom(_, _, _)
\* lines 365-372, from row index idx on
NameCandidatesFrom(table, idx, acc) ==
    IF idx >= Len(table) THEN acc
    ELSE LET row == table[idx + 1]
             key == build_key(row["food_sci"], row["food_com"], idx)
             queries == candidate_queries(row["food_sci"], row["food_com"])
         IN NameCandidatesFrom(table, idx + 1,
                IF queries # <<>> THEN SetDefault(acc, key, queries) ELSE acc)

RECURSIVE TitleToKeysFrom(_, _)
\* lines 374-379
TitleToKeysFrom(candidates, acc) ==
    IF candidates = <<>> THEN acc
    ELSE LET key == Head(candidates)[1]
             primary == Head(candidates)[2][1]
             title == replace(primary, " ", "_")
         IN TitleToKeysFrom(Tail(candidates),
                IF title # "" THEN AppendTo(acc, title, key) ELSE acc)

\* title_to_keys.get(title, [])
KeysOfTitle(title) == IF Has(title_to_keys, title) THEN Get(title_to_keys, title) ELSE <<>>

\* batch sizes: the code's value is 40 (lines 21-22, and 20 of the taxonomic
\* script); the model slices with the same arithmetic over a small chunk
TITLE_CHUNK_SIZE == 1
ENTITY_CHUNK_SIZE == 1
CHUNK_SIZE == 1

Request(op, args) == [op |-> op, args |-> args]

\* the state of a pipeline that has not started
WikiIdle ==
    /\ name_candidates = EmptyDict /\ title_to_keys = EmptyDict
    /\ key_to_entity = <<>> /\ key_to_qid = <<>> /\ qid_to_entity = <<>>
    /\ unmatched = {} /\ unresolved_titles = {} /\ sorted_titles = <<>>
    /\ single_title_cache = <<>> /\ start = 0
    /\ query_cache = <<>> /\ fallback_qids = EmptyDict /\ searched = {}
    /\ qids_list = <<>> /\ entities = <<>> /\ entity_data = <<>>

OtolIdle ==
    /\ formatted_names = <<>> /\ unique_names = <<>> /\ synonyms_cache = <<>>

PureIdle == fn = "none" /\ arg = <<>> /\ ret = Pending

\* a fresh process: main reads the table (lines 348-357)
Load(script) ==
    /\ pc \in {"idle", "done"}
    /\ runs_left > 0
    /\ runs_left' = runs_left - 1
    /\ pipeline' = script
    /\ rows' = file
    /\ input' = file
    /\ writes' = 0
    /\ requests' = <<>>
    /\ failed_batches' = {}
    /\ UNCHANGED <<file, original, written, pureVars>>

RECURSIVE ScanEntities(_, _, _, _)
\* lines 210-223: the response's entities, in response order
ScanEntities(ents, title_entity_map, cache, unresolved) ==
    IF ents = <<>>
    THEN [title_entity_map |-> title_entity_map, qid_to_entity |-> cache,
          unresolved_titles |-> unresolved]
    ELSE LET entity == Head(ents)
         IN IF entity.missing
            THEN ScanEntities(Tail(ents), title_entity_map, cache,
                    IF entity.title # "" THEN unresolved \cup {entity.title} ELSE unresolved)
            ELSE IF entity.sitelink = NoStr \/ entity.sitelink = Some("")
            THEN ScanEntities(Tail(ents), title_entity_map, cache, unresolved)
            ELSE ScanEntities(Tail(ents),
                    Put(title_entity_map, replace(entity.sitelink[1], " ", "_"),
                        [qid |-> entity.id, entity |-> entity]),
                    Put(cache, entity.id, entity), unresolved)

RECURSIVE BindBatch_forgets(_, _, _, _, _)
\* a binding loop without the else branch of lines 232-233
BindBatch_forgets(batch, title_entity_map, k2e, k2q, unresolved) ==
    IF batch = <<>>
    THEN [key_to_entity |-> k2e, key_to_qid |-> k2q, unresolved_titles |-> unresolved]
    ELSE LET requested_title == Head(batch)
             keys == KeysOfTitle(requested_title)
         IN IF requested_title \in DOMAIN title_entity_map
            THEN BindBatch_forgets(Tail(batch), title_entity_map,
                    PutAll(k2e, keys, title_entity_map[requested_title].entity),
                    PutAll(k2q, keys, title_entity_map[requested_title].qid),
                    unresolved)
            ELSE BindBatch_forgets(Tail(batch), title_entity_map, k2e, k2q, unresolved)

RECURSIVE BindBatch(_, _, _, _, _)
\* lines 225-233
BindBatch(batch, title_entity_map, k2e, k2q, unresolved) ==
    IF batch = <<>>
    THEN [key_to_entity |-> k2e, key_to_qid |-> k2q, unresolved_titles |-> unresolved]
    ELSE LET requested_title == Head(batch)
             keys == KeysOfTitle(requested_title)
         IN IF requested_title \in DOMAIN title_entity_map
            THEN BindBatch(Tail(batch), title_entity_map,
                    PutAll(k2e, keys, title_entity_map[requested_title].entity),
                    PutAll(k2q, keys, title_entity_map[requested_title].qid),
                    unresolved)
            ELSE BindBatch(Tail(batch), title_entity_map, k2e, k2q,
                    unresolved \cup {requested_title})

\* [key for title in batch for key in title_to_keys[title]]
KeysOfBatch(batch) == Range(Concat([i \in 1..Len(batch) |-> KeysOfTitle(batch[i])]))

\* main, lines 364-385, and the head of fetch_entities_for_titles, lines 170-180
WikiStart ==
    /\ Load("wiki")
    /\ name_candidates' = NameCandidatesFrom(file, 0, EmptyDict)
    /\ title_to_keys' = TitleToKeysFrom(name_candidates', EmptyDict)
    /\ key_to_entity' = <<>> /\ key_to_qid' = <<>> /\ qid_to_entity' = <<>>
    /\ unmatched' = {} /\ unresolved_titles' = {} /\ sorted_titles' = <<>>
    /\ single_title_cache' = <<>> /\ start' = 0
    /\ query_cache' = <<>> /\ fallback_qids' = EmptyDict /\ searched' = {}
    /\ qids_list' = <<>> /\ entities' = <<>> /\ entity_data' = <<>>
    /\ pc' = IF title_to_keys' = EmptyDict THEN "wiki_collect" ELSE "wiki_titles"
    /\ UNCHANGED otolVars

\* a failed pass that records nothing
TitleBatchFails_silently(batch) ==
    /\ failed_batches' = failed_batches \cup {start}
    /\ UNCHANGED <<unmatched, key_to_entity, key_to_qid, qid_to_entity, unresolved_titles>>

\* one pass of the loop of lines 182-235, with a transport failure
TitleBatchFails(batch) ==
    /\ unmatched' = unmatched \cup KeysOfBatch(batch)
    /\ failed_batches' = failed_batches \cup {start}
    /\ UNCHANGED <<key_to_entity, key_to_qid, qid_to_entity, unresolved_titles>>

\* one pass of the loop of lines 182-235, with a response
TitleBatchBinds(batch, response) ==
    LET scanned == ScanEntities(response.entities, <<>>, qid_to_entity, unresolved_titles)
        bound == BindBatch(batch, scanned.title_entity_map, key_to_entity, key_to_qid,
                           scanned.unresolved_titles)
    IN  /\ qid_to_entity' = scanned.qid_to_entity
        /\ key_to_entity' = bound.key_to_entity
        /\ key_to_qid' = bound.key_to_qid
        /\ unresolved_titles' = bound.unresolved_titles
        /\ UNCHANGED <<unmatched, failed_batches>>

WikiTitleBatch ==
    /\ pc = "wiki_titles"
    /\ start < Len(title_to_keys)
    /\ LET batch == Slice(Keys(title_to_keys), start, TITLE_CHUNK_SIZE)
       IN /\ \E response \in BulkResponses(batch) :
                IF response.ok THEN TitleBatchBinds(batch, response)
                               ELSE TitleBatchFails(batch)
          /\ requests' = Append(requests, Request("titles", batch))
    /\ start' = start + TITLE_CHUNK_SIZE
    /\ UNCHANGED <<file, pc, runs_left, pipeline, original, rows, input, writes, written, pureVars, otolVars,
                   name_candidates, title_to_keys, sorted_titles, single_title_cache,
                   query_cache, fallback_qids, searched, qids_list, entities, entity_data>>

\* lines 237-239: the bulk loop is over
WikiTitlesDone ==
    /\ pc = "wiki_titles"
    /\ start >= Len(title_to_keys)
    /\ single_title_cache' = <<>>
    /\ sorted_titles' = SortedStrings(unresolved_titles)
    /\ start' = 0
    /\ pc' = "wiki_single"
    /\ UNCHANGED <<file, runs_left, pipeline, original, rows, input, writes, requests, failed_batches, written,
                   pureVars, otolVars, name_candidates, title_to_keys, key_to_entity,
                   key_to_qid, qid_to_entity, unmatched, unresolved_titles, query_cache,
                   fallback_qids, searched, qids_list, entities, entity_data>>

\* lines 270-285: the (qid, entity) a single-title response yields
SingleResult(response) ==
    LET data == IF response.ok THEN response.entities ELSE <<>>
        usable == SelectSeq(data,
                    LAMBDA item : ~item.missing /\ item.sitelink # NoStr
                                  /\ item.sitelink # Some(""))
    IN IF usable # <<>> /\ usable[1].id # ""
       THEN [qid |-> Some(usable[1].id), entity |-> usable[1]]
       ELSE [qid |-> NoStr, entity |-> None]

\* one pass of the loop of lines 240-297
WikiSingleTitle ==
    /\ pc = "wiki_single"
    /\ start < Len(sorted_titles)
    /\ LET title == sorted_titles[start + 1]
           cached == title \in DOMAIN single_title_cache
           keys == KeysOfTitle(title)
       IN \E response \in (IF cached THEN {Failure} ELSE SingleResponses(title)) :
            LET result == IF cached THEN single_title_cache[title]
                          ELSE SingleResult(response)
            IN  /\ single_title_cache' = Put(single_title_cache, title, result)
                /\ requests' = IF cached THEN requests
                               ELSE Append(requests, Request("title", <<title>>))
                /\ IF result.qid # NoStr /\ result.entity # None
                   THEN /\ qid_to_entity' = Put(qid_to_entity, result.qid[1], result.entity)
                        /\ key_to_entity' = PutAll(key_to_entity, keys, result.entity)
                        /\ key_to_qid' = PutAll(key_to_qid, keys, result.qid[1])
                        /\ UNCHANGED unmatched
                   ELSE /\ unmatched' = unmatched \cup Range(keys)
                        /\ UNCHANGED <<qid_to_entity, key_to_entity, key_to_qid>>
    /\ start' = start + 1
    /\ UNCHANGED <<file, pc, runs_left, pipeline, original, rows, input, writes, failed_batches, written,
                   pureVars, otolVars, name_candidates, title_to_keys, unresolved_titles,
                   sorted_titles, query_cache, fallback_qids, searched, qids_list,
                   entities, entity_data>>

\* line 299 and lines 387-397: fetch_entities_for_titles returns, its locals go
WikiSingleDone ==
    /\ pc = "wiki_single"
    /\ start >= Len(sorted_titles)
    /\ unresolved_titles' = {} /\ sorted_titles' = <<>> /\ single_title_cache' = <<>>
    /\ start' = 0
    /\ query_cache' = <<>> /\ fallback_qids' = EmptyDict /\ searched' = {}
    /\ pc' = IF unmatched # {} THEN "wiki_search" ELSE "wiki_collect"
    /\ requests' = <<>> /\ failed_batches' = {}
    /\ UNCHANGED <<file, runs_left, pipeline, original, rows, input, writes, written,
                   pureVars, otolVars, name_candidates, title_to_keys, key_to_entity,
                   key_to_qid, qid_to_entity, unmatched, qids_list, entities, entity_data>>

\* what the service answers to each query, should the query be sent
AnswerChoices(queries) ==
    {answers \in [Range(queries) -> UNION {SearchResponses(q) : q \in Range(queries)}] :
        \A q \in Range(queries) : answers[q] \in SearchResponses(q)}

RECURSIVE SearchLoop_uncached(_, _, _, _)
\* a search loop that never reads query_cache
SearchLoop_uncached(queries, cache, answers, asked) ==
    IF queries = <<>>
    THEN [qid |-> NoStr, query_cache |-> cache, asked |-> asked]
    ELSE LET query == Head(queries)
             cache2 == Put(cache, query, search_entity_id(query, answers[query]))
             asked2 == Append(asked, Request("search", <<query>>))
             qid == cache2[query]
         IN IF qid # NoStr /\ qid # Some("")
            THEN [qid |-> qid, query_cache |-> cache2, asked |-> asked2]
            ELSE SearchLoop_uncached(Tail(queries), cache2, answers, asked2)

RECURSIVE SearchLoop(_, _, _, _)
\* lines 400-407 for one key: the identifier found, the cache, the searches sent
SearchLoop(queries, cache, answers, asked) ==
    IF queries = <<>>
    THEN [qid |-> NoStr, query_cache |-> cache, asked |-> asked]
    ELSE LET query == Head(queries)
             hit == query \in DOMAIN cache
             cache2 == IF hit THEN cache
                       ELSE Put(cache, query, search_entity_id(query, answers[query]))
             asked2 == IF hit THEN asked ELSE Append(asked, Request("search", <<query>>))
             qid == cache2[query]
         IN IF qid # NoStr /\ qid # Some("")
            THEN [qid |-> qid, query_cache |-> cache2, asked |-> asked2]
            ELSE SearchLoop(Tail(queries), cache2, answers, asked2)

\* name_candidates.get(key, [])
QueriesOf(key) == IF Has(name_candidates, key) THEN Get(name_candidates, key) ELSE <<>>

\* one pass of the loop of lines 398-409; a set is iterated in no fixed order
WikiSearchKey ==
    /\ pc = "wiki_search"
    /\ \E key \in unmatched \ searched :
         \E answers \in AnswerChoices(QueriesOf(key)) :
            LET found == SearchLoop(QueriesOf(key), query_cache, answers, <<>>)
            IN  /\ query_cache' = found.query_cache
                /\ requests' = requests \o found.asked
                /\ fallback_qids' = IF found.qid # NoStr
                                    THEN Append(fallback_qids, <<key, found.qid[1]>>)
                                    ELSE fallback_qids
                /\ searched' = searched \cup {key}
    /\ UNCHANGED <<file, pc, runs_left, pipeline, original, rows, input, writes, failed_batches, written,
                   pureVars, otolVars, name_candidates, title_to_keys, key_to_entity,
                   key_to_qid, qid_to_entity, unmatched, unresolved_titles, sorted_titles,
                   single_title_cache, start, qids_list, entities, entity_data>>

\* line 411 and fetch_entities, lines 118-119
WikiSearchDone ==
    /\ pc = "wiki_search"
    /\ searched = unmatched
    /\ qids_list' = SelectSeq(Values(fallback_qids), LAMBDA qid : qid # "")
    /\ entities' = <<>>
    /\ start' = 0
    /\ pc' = "wiki_fetch"
    /\ requests' = <<>>
    /\ UNCHANGED <<file, runs_left, pipeline, original, rows, input, writes, failed_batches, written,
                   pureVars, otolVars, name_candidates, title_to_keys, key_to_entity,
                   key_to_qid, qid_to_entity, unmatched, unresolved_titles, sorted_titles,
                   single_title_cache, query_cache, fallback_qids, searched, entity_data>>

RECURSIVE UpdateById(_, _)
\* entities.update(data.get("entities", {}))
UpdateById(dict, ents) ==
    IF ents = <<>> THEN dict
    ELSE UpdateById(Put(dict, Head(ents).id, Head(ents)), Tail(ents))

\* one pass of the loop of fetch_entities, lines 121-142
FetchEntitiesBatch ==
    /\ start < Len(qids_list)
    /\ LET batch == Slice(qids_list, start, ENTITY_CHUNK_SIZE)
       IN /\ \E response \in EntityResponses(batch) :
                entities' = IF response.ok THEN UpdateById(entities, response.entities)
                            ELSE entities
          /\ requests' = Append(requests, Request("ids", batch))
    /\ start' = start + ENTITY_CHUNK_SIZE
    /\ UNCHANGED <<file, pc, runs_left, pipeline, original, rows, input, writes, failed_batches, written,
                   pureVars, otolVars, name_candidates, title_to_keys, key_to_entity,
                   key_to_qid, qid_to_entity, unmatched, unresolved_titles, sorted_titles,
                   single_title_cache, query_cache, fallback_qids, searched, qids_list,
                   entity_data>>

WikiFetchFallback == pc = "wiki_fetch" /\ FetchEntitiesBatch

RECURSIVE BindFallback(_, _, _, _)
\* lines 412-417
BindFallback(pairs, k2e, k2q, cache) ==
    IF pairs = <<>>
    THEN [key_to_entity |-> k2e, key_to_qid |-> k2q, qid_to_entity |-> cache]
    ELSE LET key == Head(pairs)[1]
             qid == Head(pairs)[2]
         IN IF qid \in DOMAIN entities
            THEN BindFallback(Tail(pairs), Put(k2e, key, entities[qid]),
                              Put(k2q, key, qid), Put(cache, qid, entities[qid]))
            ELSE BindFallback(Tail(pairs), k2e, k2q, cache)

\* fetch_entities returns (line 144); lines 412-423, where the search's locals are
\* read for the last time
WikiFetchDone ==
    /\ pc = "wiki_fetch"
    /\ start >= Len(qids_list)
    /\ LET bound == BindFallback(fallback_qids, key_to_entity, key_to_qid, qid_to_entity)
       IN /\ key_to_entity' = bound.key_to_entity
          /\ key_to_qid' = bound.key_to_qid
          /\ qid_to_entity' = bound.qid_to_entity
    /\ qids_list' = <<>> /\ entities' = <<>> /\ start' = 0
    /\ query_cache' = <<>> /\ fallback_qids' = EmptyDict /\ searched' = {}
    /\ requests' = <<>>
    /\ pc' = "wiki_collect"
    /\ UNCHANGED <<file, runs_left, pipeline, original, rows, input, writes, failed_batches, written,
                   pureVars, otolVars, name_candidates, title_to_keys, unmatched,
                   unresolved_titles, sorted_titles, single_title_cache, entity_data>>

\* key_to_aliases.get(key, []) of lines 432-436 and 451
AliasesOf(key) ==
    IF key \in DOMAIN key_to_entity THEN extract_aliases(key_to_entity[key]) ELSE <<>>

\* key_to_synonym_qids.get(key, []) of lines 432-437 and 452
SynonymQidsOf(key) ==
    IF key \in DOMAIN key_to_entity THEN extract_p1420_ids(key_to_entity[key]) ELSE <<>>

\* every sequence that lists the set S once: the orders a set may be iterated in
Orderings(S) == {order \in [1..Cardinality(S) -> S] : Range(order) = S}

\* lines 425-447: the referenced identifiers not in the cache are fetched
WikiCollect ==
    /\ pc = "wiki_collect"
    /\ entity_data' = qid_to_entity
    /\ LET referenced_qids == UNION {Range(SynonymQidsOf(key)) : key \in DOMAIN key_to_entity}
           missing_qids == referenced_qids \ DOMAIN qid_to_entity
       IN \E order \in Orderings(missing_qids) :
             qids_list' = SelectSeq(order, LAMBDA qid : qid # "")
    /\ entities' = <<>>
    /\ start' = 0
    /\ pc' = "wiki_refs"
    /\ UNCHANGED <<file, runs_left, pipeline, original, rows, input, writes, requests, failed_batches, written,
                   pureVars, otolVars, name_candidates, title_to_keys, key_to_entity,
                   key_to_qid, qid_to_entity, unmatched, unresolved_titles, sorted_titles,
                   single_title_cache, query_cache, fallback_qids, searched>>

WikiFetchReferenced == pc = "wiki_refs" /\ FetchEntitiesBatch

\* line 447: entity_data.update(fetch_entities(missing_qids))
WikiReferencedDone ==
    /\ pc = "wiki_refs"
    /\ start >= Len(qids_list)
    /\ entity_data' = (entities @@ entity_data)
    /\ qids_list' = <<>> /\ entities' = <<>> /\ start' = 0
    /\ pc' = "wiki_write"
    /\ requests' = <<>>
    /\ UNCHANGED <<file, runs_left, pipeline, original, rows, input, writes, failed_batches, written,
                   pureVars, otolVars, name_candidates, title_to_keys, key_to_entity,
                   key_to_qid, qid_to_entity, unmatched, unresolved_titles, sorted_titles,
                   single_title_cache, query_cache, fallback_qids, searched>>

\* entity_data.get(qid)
EntityData(qid) == IF qid \in DOMAIN entity_data THEN entity_data[qid] ELSE None

\* the raw list `combined` of lines 451-457 for one key
CombinedOf(key) ==
    LET synonym_qids == SynonymQidsOf(key)
        synonym_labels == [i \in 1..Len(synonym_qids) |->
                              english_label(EntityData(synonym_qids[i]))]
    IN Combined(AliasesOf(key), synonym_labels)

\* key_to_synonyms[key] of lines 449-474
KeyToSynonyms(key) == Join(filtered_synonyms(key, CombinedOf(key)), "; ")

\* synonyms that fall back on the value read when the key is not bound
SynonymsWiki_keeps_unresolved(row, idx) ==
    LET key == build_key(row["food_sci"], row["food_com"], idx)
    IN IF key \in DOMAIN key_to_entity THEN KeyToSynonyms(key) ELSE row[WIKI_FIELD]

\* lines 477-481: key_to_synonyms.get(key, "") for the row at index idx
SynonymsWiki(row, idx) ==
    LET key == build_key(row["food_sci"], row["food_com"], idx)
    IN IF Has(name_candidates, key) THEN KeyToSynonyms(key) ELSE ""

\* lines 476-492
WikiUpdatedRows ==
    [i \in 1..Len(rows) |-> UpdatedRow(rows[i], WIKI_FIELD, SynonymsWiki(rows[i], i - 1))]

Column(table, field) == [i \in 1..Len(table) |-> table[i][field]]

\* lines 449-503: the synonym strings and the output rows are built, then
\* OUTPUT_PATH.open("w") empties the table file, which is the file read
WikiOpen ==
    /\ pc = "wiki_write"
    /\ file' = <<>>
    /\ writes' = writes + 1
    /\ pc' = "wiki_rows"
    /\ UNCHANGED <<runs_left, pipeline, original, rows, input, requests, failed_batches,
                   written, pureVars, otolVars, wikiVars>>

\* lines 504-507: the header and the rows are written, the file is closed
WikiWrite ==
    /\ pc = "wiki_rows"
    /\ file' = WikiUpdatedRows
    /\ UNCHANGED writes
    /\ written' = [written EXCEPT !.wiki = <<Column(WikiUpdatedRows, WIKI_FIELD)>>]
    /\ pc' = "done"
    /\ UNCHANGED <<runs_left, pipeline, original, rows, input, requests, failed_batches,
                   pureVars, otolVars, wikiVars>>

(***************************************************************************)
(* Taxonomic pipeline (scrape_opentree_synonyms.py)                        *)
(***************************************************************************)

Taxon(synonyms) == [synonyms |-> synonyms]

\* a match of the name-resolution service; taxon is <<>> when the match has none
Match(score, is_synonym, is_approximate_match, taxon) ==
    [score |-> score, is_synonym |-> is_synonym,
     is_approximate_match |-> is_approximate_match, taxon |-> taxon]

Result(matches) == [matches |-> matches]

\* the result the service holds for a name
TnrsIndex(name) ==
    IF name = "Zea mays"
    THEN Result(<< Match(90, FALSE, TRUE, <<Taxon(<<"Zea">>)>>),
                   Match(80, FALSE, FALSE,
                         <<Taxon(<<"Zea mays mays", "zea mays", "Zea mays mays",
                                   " Zea curagua">>)>>),
                   Match(95, TRUE, FALSE, <<Taxon(<<"Zea mexicana">>)>>) >>)
    ELSE IF name = "corn"
    THEN Result(<< Match(70, FALSE, TRUE, <<>>) >>)
    ELSE Result(<<>>)

TnrsFailure == [ok |-> FALSE, results |-> <<>>]
TnrsSuccess(results) == [ok |-> TRUE, results |-> results]

\* what the service may answer to a match_names request
TnrsResponses(names) ==
    LET full == [i \in 1..Len(names) |-> TnrsIndex(names[i])]
    IN { TnrsFailure,
         TnrsSuccess(full),
         TnrsSuccess(SubSeq(full, 1, Len(full) - 1)),
         TnrsSuccess([i \in 1..Len(names) |-> None]) }

\* best_match.get("taxon", {}).get("synonyms") or []
TaxonSynonyms(match) ==
    IF match.taxon = <<>> THEN <<>>
    ELSE IF "synonyms" \notin DOMAIN match.taxon[1] THEN <<>>
    ELSE match.taxon[1].synonyms

\* a lookup that takes the last result for a position the response lacks
SynonymsAt_clamped(results, idx) ==
    LET result == IF idx < Len(results) THEN results[idx + 1]
                  ELSE IF results # <<>> THEN results[Len(results)] ELSE None
    IN IF result = None \/ result = <<>> THEN <<>>
       ELSE LET matches == IF "matches" \in DOMAIN result THEN result.matches ELSE <<>>
                best_match == select_best_match(matches)
            IN IF best_match # None
               THEN OrderedFromKeys(TaxonSynonyms(best_match))
               ELSE <<>>

\* lines 59-71 for the name at 0-based position idx; a result without the field
\* matches is a result without matches
SynonymsAt(results, idx) ==
    LET result == IF idx < Len(results) THEN results[idx + 1] ELSE None
    IN IF result = None \/ result = <<>> THEN <<>>
       ELSE LET matches == IF "matches" \in DOMAIN result THEN result.matches ELSE <<>>
                best_match == select_best_match(matches)
            IN IF best_match # None
               THEN OrderedFromKeys(TaxonSynonyms(best_match))
               ELSE <<>>

\* fetch_synonyms_batch on a response that arrived: name -> synonyms
fetch_synonyms_batch(names, response) ==
    [name \in Range(names) |->
        SynonymsAt(response.results, (CHOOSE i \in 1..Len(names) : names[i] = name) - 1)]

\* main, lines 76-93
OtolStart ==
    /\ Load("otol")
    /\ formatted_names' = [i \in 1..Len(file) |-> format_scientific_name(file[i]["food_sci"])]
    /\ unique_names' = SortedStrings(Range(formatted_names') \ {""})
    /\ synonyms_cache' = <<>>
    /\ start' = 0
    /\ pc' = "otol_batch"
    /\ name_candidates' = EmptyDict /\ title_to_keys' = EmptyDict
    /\ key_to_entity' = <<>> /\ key_to_qid' = <<>> /\ qid_to_entity' = <<>>
    /\ unmatched' = {} /\ unresolved_titles' = {} /\ sorted_titles' = <<>>
    /\ single_title_cache' = <<>>
    /\ query_cache' = <<>> /\ fallback_qids' = EmptyDict /\ searched' = {}
    /\ qids_list' = <<>> /\ entities' = <<>> /\ entity_data' = <<>>

\* one pass of the loop of lines 95-109
OtolBatch ==
    /\ pc = "otol_batch"
    /\ start < Len(unique_names)
    /\ LET batch == Slice(unique_names, start, CHUNK_SIZE)
       IN /\ \E response \in TnrsResponses(batch) :
                LET batch_synonyms == IF response.ok
                                      THEN fetch_synonyms_batch(batch, response)
                                      ELSE [name \in Range(batch) |-> <<>>]
                IN /\ synonyms_cache' =
                        [name \in Range(batch) |-> Join(batch_synonyms[name], "; ")]
                            @@ synonyms_cache
                   /\ failed_batches' = IF response.ok THEN failed_batches
                                        ELSE failed_batches \cup {start}
          /\ requests' = Append(requests, Request("match_names", batch))
    /\ start' = start + CHUNK_SIZE
    /\ UNCHANGED <<file, pc, runs_left, pipeline, original, rows, input, writes, written, pureVars, name_candidates,
                   title_to_keys, key_to_entity, key_to_qid, qid_to_entity, unmatched,
                   unresolved_titles, sorted_titles, single_title_cache, query_cache,
                   fallback_qids, searched, qids_list, entities, entity_data,
                   formatted_names, unique_names>>

\* line 115
SynonymsOtol(formatted_name) ==
    IF formatted_name # "" /\ formatted_name \in DOMAIN synonyms_cache
    THEN synonyms_cache[formatted_name]
    ELSE ""

\* lines 111-126
OtolUpdatedRows ==
    [i \in 1..Len(rows) |->
        UpdatedRow(rows[i], OPEN_TREE_FIELD, SynonymsOtol(formatted_names[i]))]

\* lines 111-137: the output rows are built, then OUTPUT_PATH.open("w") empties
\* the table file, which is the file read
OtolOpen ==
    /\ pc = "otol_batch"
    /\ start >= Len(unique_names)
    /\ file' = <<>>
    /\ writes' = writes + 1
    /\ pc' = "otol_rows"
    /\ UNCHANGED <<runs_left, pipeline, original, rows, input, requests, failed_batches,
                   written, pureVars, otolVars, wikiVars>>

\* lines 138-140: the header and the rows are written, the file is closed
OtolWrite ==
    /\ pc = "otol_rows"
    /\ file' = OtolUpdatedRows
    /\ UNCHANGED writes
    /\ written' = [written EXCEPT !.otol = <<Column(OtolUpdatedRows, OPEN_TREE_FIELD)>>]
    /\ pc' = "done"
    /\ UNCHANGED <<runs_left, pipeline, original, rows, input, requests, failed_batches,
                   pureVars, otolVars, wikiVars>>

(***************************************************************************)
(* The pipelines' specification: one table, then runs of either pipeline   *)
(***************************************************************************)

MaxRows == 2
MaxRunRows == 1
MaxRuns == 2

\* the (scientific, common) names a row of the input may carry
NameChoices ==
    { [sci |-> "Zea_mays", com |-> "corn"],
      [sci |-> " Zea mays", com |-> ""],
      [sci |-> "", com |-> "corn"],
      [sci |-> "corn", com |-> ""],
      [sci |-> "0", com |-> "maize"],
      [sci |-> " _", com |-> ""] }

\* the row at 1-based position i: its other fields tell the rows apart
MakeRow(i, names) ==
    (index_field :> ("r" \o str(i)))
    @@ ("food_com" :> names.com)
    @@ ("food_sci" :> names.sci)
    @@ (OPEN_TREE_FIELD :> (IF i % 2 = 1 THEN "old otol " \o str(i) ELSE ""))
    @@ (WIKI_FIELD :> (IF i % 2 = 1 THEN "old wiki " \o str(i) ELSE ""))
    @@ (NCBI_FIELD :> ("ncbi " \o str(i)))

Tables(n) ==
    {[i \in 1..Len(names) |-> MakeRow(i, names[i])] : names \in SeqsUpTo(NameChoices, n)}

InitWith(tables, runs) ==
    /\ file \in tables
    /\ pc = "idle"
    /\ runs_left = runs
    /\ pipeline = "none"
    /\ original = file
    /\ rows = <<>> /\ input = <<>> /\ writes = 0 /\ requests = <<>>
    /\ failed_batches = {}
    /\ written = [wiki |-> <<>>, otol |-> <<>>]
    /\ WikiIdle /\ OtolIdle /\ PureIdle

Init == InitWith(Tables(MaxRows), 1)

Next ==
    \/ WikiStart
    \/ WikiTitleBatch
    \/ WikiTitlesDone
    \/ WikiSingleTitle
    \/ WikiSingleDone
    \/ WikiSearchKey
    \/ WikiSearchDone
    \/ WikiFetchFallback
    \/ WikiFetchDone
    \/ WikiCollect
    \/ WikiFetchReferenced
    \/ WikiReferencedDone
    \/ WikiOpen
    \/ WikiWrite
    \/ OtolStart
    \/ OtolBatch
    \/ OtolOpen
    \/ OtolWrite

\* one run of either pipeline on every table
Spec == Init /\ [][Next]_vars

\* main has returned and no run is left to start
Halted == pc = "done" /\ runs_left = 0

\* The process is single-threaded and keeps executing until main returns: weak
\* fairness of Next.  A step of Next is possible in every state but the halted
\* ones, so WF_vars(Next), which is
\* []<>(~ENABLED <<Next>>_vars) \/ []<><<Next>>_vars, is stated with the
\* enabling condition written out.
FairSpec == Spec /\ ([]<><<Next>>_vars \/ []<>Halted)

\* the rows the running script is writing
OutputRows == IF pipeline = "wiki" THEN WikiUpdatedRows ELSE OtolUpdatedRows

\* The process is killed or raises at any point of main.  Its memory is gone;
\* what is on disk stays.  Rows go to the file through a buffer (lines 503-506,
\* taxonomic 137-140): a process that dies between open("w") and the close
\* leaves the header and any prefix of the rows.
Abort ==
    /\ pc \notin {"idle", "done", "aborted", "pure"}
    /\ file' \in IF pc \in {"wiki_rows", "otol_rows"}
                 THEN {SubSeq(OutputRows, 1, k) : k \in 0..Len(OutputRows)}
                 ELSE {file}
    /\ pc' = "aborted"
    /\ rows' = <<>> /\ requests' = <<>> /\ failed_batches' = {}
    /\ name_candidates' = EmptyDict /\ title_to_keys' = EmptyDict
    /\ key_to_entity' = <<>> /\ key_to_qid' = <<>> /\ qid_to_entity' = <<>>
    /\ unmatched' = {} /\ unresolved_titles' = {} /\ sorted_titles' = <<>>
    /\ single_title_cache' = <<>> /\ start' = 0
    /\ query_cache' = <<>> /\ fallback_qids' = EmptyDict /\ searched' = {}
    /\ qids_list' = <<>> /\ entities' = <<>> /\ entity_data' = <<>>
    /\ formatted_names' = <<>> /\ unique_names' = <<>> /\ synonyms_cache' = <<>>
    /\ UNCHANGED <<runs_left, pipeline, original, input, writes, written, pureVars>>

NextOrAbort == Next \/ Abort

\* one run of either pipeline, which may be aborted at any point
SpecAbort == Init /\ [][NextOrAbort]_vars

\* several runs, one after the other, on the same table
InitRuns == InitWith(Tables(MaxRunRows), MaxRuns)
SpecRuns == InitRuns /\ [][Next]_vars

\* a response to a bulk title request that, besides the entities of the batch,
\* marks every title of the mapping missing: the titles the response itself
\* resolves and the titles of the other batches
MarkingResponses(batch) ==
    LET titles == Keys(title_to_keys)
    IN { Success(Concat([i \in 1..Len(batch) |-> TitleAnswer(batch[i], FALSE)])
                   \o [i \in 1..Len(titles) |-> MissingEntry("-1", titles[i])]) }

\* one pass of the loop of lines 182-235, answered by such a response
WikiTitleBatchMarked ==
    /\ pc = "wiki_titles"
    /\ start < Len(title_to_keys)
    /\ LET batch == Slice(Keys(title_to_keys), start, TITLE_CHUNK_SIZE)
       IN /\ \E response \in MarkingResponses(batch) : TitleBatchBinds(batch, response)
          /\ requests' = Append(requests, Request("titles", batch))
    /\ start' = start + TITLE_CHUNK_SIZE
    /\ UNCHANGED <<file, pc, runs_left, pipeline, original, rows, input, writes, written, pureVars, otolVars,
                   name_candidates, title_to_keys, sorted_titles, single_title_cache,
                   query_cache, fallback_qids, searched, qids_list, entities, entity_data>>

NextMarked == Next \/ WikiTitleBatchMarked

\* the runs of Spec with a service free to mark any title missing
SpecMarked == Init /\ [][NextMarked]_vars

(***************************************************************************)
(* Pure-function harness: the inputs are drawn in Init, one action applies *)
(* the function under evaluation.                                          *)
(***************************************************************************)

MaxNameLen == 3
MaxMatches == 3
MaxAliases == 2
MaxLabels == 1
MaxResults == 3
MaxBatch == 2

NameAlphabet == {"a", "S", "p", ".", " ", "_"}

RECURSIVE StringsOver(_, _)
StringsOver(alphabet, n) ==
    IF n = 0 THEN {""}
    ELSE LET shorter == StringsOver(alphabet, n - 1)
         IN shorter \cup {s \o c : s \in shorter, c \in alphabet}

SampleSci == {"Allium_cepa.", "Allium sp.", "Allium_SPP", "Allium spp.",
              "Allium  sp", "a sp", "Zea_mays", "Zea mays", "corn"}
SampleCom == {"", " a_", "Allium"}

SciInputs == StringsOver(NameAlphabet, MaxNameLen) \cup SampleSci
ComInputs == SampleCom

Scores == {80, 90, 95}
\* a synonym match is passed over by both loops, approximate or not
MatchFlags == {[is_synonym |-> FALSE, is_approximate_match |-> FALSE],
               [is_synonym |-> FALSE, is_approximate_match |-> TRUE],
               [is_synonym |-> TRUE, is_approximate_match |-> FALSE]}
MatchAttrs ==
    {[score |-> s, is_synonym |-> f.is_synonym,
      is_approximate_match |-> f.is_approximate_match] : s \in Scores, f \in MatchFlags}

\* a match as the service returns it; ott_id tells equal-looking candidates apart
MatchList(attrs) ==
    [i \in 1..Len(attrs) |->
        [score |-> attrs[i].score, is_synonym |-> attrs[i].is_synonym,
         is_approximate_match |-> attrs[i].is_approximate_match, ott_id |-> i]]

MatchInputs == {MatchList(a) : a \in SeqsUpTo(MatchAttrs, MaxMatches)}

RawAliases == {"", " ", "maize", " Maize ", " zea MAYS"}
RawLabels == {NoStr, Some("corn"), Some("Zea mays"), Some(" Maize ")}
CleanKeys == {<<"sci", "Zea mays">>, <<"com", "corn">>, <<"com", "Maize">>}

CleanInputs ==
    [key : CleanKeys,
     aliases : SeqsUpTo(RawAliases, MaxAliases),
     synonym_labels : SeqsUpTo(RawLabels, MaxLabels)]

\* no pipeline runs while a function is evaluated
SearchQueries == {"corn", "Maize"}
ResultAttrs == [label : {"Corn", "maize", "Zea mays"}, match : {"CORN", "zea"}]

\* ranked result lists: the result at rank n has the identifier "Q" n
ResultLists ==
    {[n \in 1..Len(attrs) |-> SearchResult("Q" \o str(n), attrs[n].label, attrs[n].match)] :
        attrs \in SeqsUpTo(ResultAttrs, MaxResults)}

SearchInputs ==
    [query : SearchQueries, response : {SearchFailure} \cup {SearchSuccess(l) : l \in ResultLists}]

\* a result whose selected taxon has synonyms, and results that lack a field
FullResult == Result(<<Match(90, FALSE, FALSE, <<Taxon(<<"Zea", "Zea mays mays", "Zea">>)>>)>>)
ResultChoices ==
    { FullResult,
      None,
      [name |-> "corn"],
      Result(<<>>),
      Result(<<Match(90, FALSE, FALSE, <<>>)>>),
      Result(<<Match(90, FALSE, FALSE, <<[ott_id |-> 1]>>)>>) }

BatchNames == SubSeq(<<"Zea mays", "corn", "rice", "oat">>, 1, MaxBatch)

BatchInputs ==
    [names : {BatchNames},
     response : {TnrsSuccess(results) : results \in SeqsUpTo(ResultChoices, MaxBatch)}]

\* entities that lack fields, and whole ones
EntityChoices ==
    { [id |-> "Q7"],
      [id |-> "Q7", aliases |-> <<"maize", " ">>],
      [id |-> "Q7", p1420 |-> <<Claim("value", "item", "Q2")>>],
      [id |-> "Q7", label |-> Some("corn")],
      [id |-> "Q7", aliases |-> <<"maize">>, p1420 |-> <<Claim("value", "item", "Q2")>>,
       label |-> NoStr],
      [id |-> "Q7", aliases |-> <<"maize">>, p1420 |-> <<Claim("value", "item", "Q2")>>,
       label |-> Some("corn")] }

PipelinesIdle ==
    /\ file = <<>> /\ pc = "pure" /\ runs_left = 0
    /\ pipeline = "none" /\ original = <<>>
    /\ rows = <<>> /\ input = <<>> /\ writes = 0 /\ requests = <<>>
    /\ failed_batches = {}
    /\ written = [wiki |-> <<>>, otol |-> <<>>]
    /\ WikiIdle /\ OtolIdle

PureInit ==
    /\ PipelinesIdle
    /\ ret = Pending
    /\ \/ fn = "candidate_queries" /\ arg \in [sci : SciInputs, com : ComInputs]
       \/ fn = "select_best_match" /\ arg \in MatchInputs
       \/ fn = "filtered_synonyms" /\ arg \in CleanInputs
       \/ fn = "search_entity_id" /\ arg \in SearchInputs
       \/ fn = "fetch_synonyms_batch" /\ arg \in BatchInputs
       \/ fn = "entity_fields" /\ arg \in [entity : EntityChoices, target : EntityChoices \cup {None}]

ApplyCandidateQueries ==
    /\ fn = "candidate_queries" /\ ret = Pending
    /\ ret' = Returned(candidate_queries(arg.sci, arg.com))
    /\ UNCHANGED <<fn, arg, tableVars, wikiVars, otolVars>>

ApplySelectBestMatch ==
    /\ fn = "select_best_match" /\ ret = Pending
    /\ ret' = Returned(select_best_match(arg))
    /\ UNCHANGED <<fn, arg, tableVars, wikiVars, otolVars>>

ApplyFilteredSynonyms ==
    /\ fn = "filtered_synonyms" /\ ret = Pending
    /\ ret' = Returned(filtered_synonyms(arg.key, Combined(arg.aliases, arg.synonym_labels)))
    /\ UNCHANGED <<fn, arg, tableVars, wikiVars, otolVars>>

ApplySearchEntityId ==
    /\ fn = "search_entity_id" /\ ret = Pending
    /\ ret' = Returned(search_entity_id(arg.query, arg.response))
    /\ UNCHANGED <<fn, arg, tableVars, wikiVars, otolVars>>

ApplyFetchSynonymsBatch ==
    /\ fn = "fetch_synonyms_batch" /\ ret = Pending
    /\ ret' = Returned(fetch_synonyms_batch(arg.names, arg.response))
    /\ UNCHANGED <<fn, arg, tableVars, wikiVars, otolVars>>

\* what lines 432-457 read of a bound entity and of one entity its claims lead to
ApplyEntityFields ==
    /\ fn = "entity_fields" /\ ret = Pending
    /\ ret' = Returned([aliases |-> extract_aliases(arg.entity),
                        synonym_qids |-> extract_p1420_ids(arg.entity),
                        combined |-> Combined(extract_aliases(arg.entity),
                                              <<english_label(arg.target)>>)])
    /\ UNCHANGED <<fn, arg, tableVars, wikiVars, otolVars>>

PureNext ==
    \/ ApplyCandidateQueries
    \/ ApplySelectBestMatch
    \/ ApplyFilteredSynonyms
    \/ ApplySearchEntityId
    \/ ApplyFetchSynonymsBatch
    \/ ApplyEntityFields

SpecPure == PureInit /\ [][PureNext]_vars


(***************************************************************************)
(* Claims settled on the pure functions (specification SpecPure)           *)
(***************************************************************************)

NoRepeats(seq) == \A i, j \in 1..Len(seq) : i # j => seq[i] # seq[j]

FirstIndex(seq, x) == CHOOSE i \in 1..Len(seq) : seq[i] = x /\ \A j \in 1..(i - 1) : seq[j] # x

\* s without its last space-separated token and the space before it
WithoutLastToken(s) ==
    CHOOSE p \in {SubSeq(s, 1, n) : n \in 0..Len(s)} :
        \E t \in {SubSeq(s, n, Len(s)) : n \in 1..(Len(s) + 1)} :
            /\ s = p \o " " \o t
            /\ \A i \in 1..Len(t) : CharAt(t, i) # " "

\* the strings the claim lists, in the claim's order (empty ones included)
C6_Listed ==
    LET sci == format_scientific_name(arg.sci)
        com == format_common_name(arg.com)
        rank == \E suffix \in {" sp.", " sp", " spp.", " spp"} : endswith(lower(sci), suffix)
    IN  <<sci>>
        \o (IF sci # "" /\ CharAt(sci, Len(sci)) = "." THEN <<SubSeq(sci, 1, Len(sci) - 1)>> ELSE <<>>)
        \o (IF rank THEN <<WithoutLastToken(sci)>> ELSE <<>>)
        \o <<com>>

\* C6: candidate_queries returns the listed strings that are non-empty, each
\* once, in first-seen order; nothing when both normalized names are empty;
\* and ["Allium cepa.", "Allium cepa"] for ("Allium_cepa.", "").
C6_CandidateQueries ==
    (fn = "candidate_queries" /\ ret.done) =>
        LET out == ret.value
            listed == C6_Listed
        IN  /\ \A i \in 1..Len(out) : out[i] # ""
            /\ NoRepeats(out)
            /\ Range(out) = Range(listed) \ {""}
            /\ \A i, j \in 1..Len(out) :
                  i < j => FirstIndex(listed, out[i]) < FirstIndex(listed, out[j])
            /\ (format_scientific_name(arg.sci) = "" /\ format_common_name(arg.com) = "")
                  => out = <<>>
            /\ (arg.sci = "Allium_cepa." /\ arg.com = "")
                  => out = <<"Allium cepa.", "Allium cepa">>

\* every rule contributes and the common name repeats an earlier candidate
C6_Witness ==
    /\ fn = "candidate_queries" /\ ret.done
    /\ arg.sci = "Allium sp." /\ arg.com = "Allium"
    /\ ret.value = <<"Allium sp.", "Allium sp", "Allium">>

\* the candidates the claim's rule chooses among: the first non-empty tier
C7_Tier(matches) ==
    LET all == 1..Len(matches)
        exact == {i \in all : ~matches[i].is_synonym /\ ~matches[i].is_approximate_match}
        nonsyn == {i \in all : ~matches[i].is_synonym}
    IN IF exact # {} THEN exact ELSE IF nonsyn # {} THEN nonsyn ELSE all

\* C7: select_best_match returns the highest-scoring candidate of the first
\* non-empty tier (exact non-synonyms, non-synonyms, all), the earliest one among
\* equal scores, no match for an empty list, and the 0.8 candidate of the example.
C7_SelectBestMatch ==
    (fn = "select_best_match" /\ ret.done) =>
        /\ arg = <<>> => ret.value = None
        /\ arg # <<>> =>
            LET tier == C7_Tier(arg)
                best == CHOOSE i \in tier : \A j \in tier :
                            \/ arg[j].score < arg[i].score
                            \/ arg[j].score = arg[i].score /\ i <= j
            IN ret.value = arg[best]
        /\ ( /\ Len(arg) = 3
             /\ arg[1].score = 90 /\ ~arg[1].is_synonym /\ arg[1].is_approximate_match
             /\ arg[2].score = 80 /\ ~arg[2].is_synonym /\ ~arg[2].is_approximate_match
             /\ arg[3].score = 95 /\ arg[3].is_synonym /\ ~arg[3].is_approximate_match )
           => ret.value = arg[2]

C7_Witness ==
    /\ fn = "select_best_match" /\ ret.done
    /\ Len(arg) = 3
    /\ arg[1].score = 90 /\ ~arg[1].is_synonym /\ arg[1].is_approximate_match
    /\ arg[2].score = 80 /\ ~arg[2].is_synonym /\ ~arg[2].is_approximate_match
    /\ arg[3].score = 95 /\ arg[3].is_synonym /\ ~arg[3].is_approximate_match
    /\ ret.value.ott_id = 2

\* the comparison form of a raw entry: trimmed, case folded
Folded(x) == lower(strip(x))

\* C2: no entry of a key's final synonym list equals the key's canonical name
\* case-insensitively, as written or after trimming the entry.
C2_NoCanonicalName ==
    (fn = "filtered_synonyms" /\ ret.done) =>
        \A k \in 1..Len(ret.value) :
            /\ lower(ret.value[k]) # lower(arg.key[2])
            /\ Folded(ret.value[k]) # lower(arg.key[2])

\* the service returned the canonical name in another case, next to a real synonym
C2_Witness ==
    /\ fn = "filtered_synonyms" /\ ret.done
    /\ arg.key = <<"sci", "Zea mays">>
    /\ arg.aliases = <<" zea MAYS", "maize">>
    /\ arg.synonym_labels = <<Some("Zea mays")>>
    /\ ret.value = <<"maize">>

\* C3: the cleaned list has no empty entry and no two entries equal
\* case-insensitively; each entry is the (trimmed) first raw occurrence of its
\* case-insensitive class, in raw order; every class other than the canonical
\* name's survives; cleaning a cleaned list again returns it unchanged.
C3_CleanedList ==
    (fn = "filtered_synonyms" /\ ret.done) =>
        LET raw == Combined(arg.aliases, arg.synonym_labels)
            out == ret.value
            first(k) == CHOOSE i \in 1..Len(raw) :
                            /\ Folded(raw[i]) = lower(out[k])
                            /\ \A j \in 1..(i - 1) : Folded(raw[j]) # lower(out[k])
        IN  /\ \A k \in 1..Len(out) : out[k] # ""
            /\ \A k, l \in 1..Len(out) : k # l => lower(out[k]) # lower(out[l])
            /\ \A k \in 1..Len(out) :
                  /\ \E i \in 1..Len(raw) : Folded(raw[i]) = lower(out[k])
                  /\ out[k] = strip(raw[first(k)])
            /\ \A k, l \in 1..Len(out) : k < l => first(k) < first(l)
            /\ \A i \in 1..Len(raw) :
                  (strip(raw[i]) # "" /\ Folded(raw[i]) # lower(arg.key[2]))
                      => \E k \in 1..Len(out) : lower(out[k]) = Folded(raw[i])
            /\ filtered_synonyms(arg.key, out) = out

\* two raw entries of one case-insensitive class, the first one kept
C3_Witness ==
    /\ fn = "filtered_synonyms" /\ ret.done
    /\ arg.aliases = <<" Maize ", "maize">>
    /\ arg.synonym_labels = <<Some("corn")>>
    /\ arg.key = <<"sci", "Zea mays">>
    /\ ret.value = <<"Maize", "corn">>


(***************************************************************************)
(* Claims about a run of a pipeline (Spec, FairSpec, SpecRuns)             *)
(***************************************************************************)

\* the column the running script owns
TargetField == IF pipeline = "wiki" THEN WIKI_FIELD ELSE OPEN_TREE_FIELD

NormalizedSci(row) == format_scientific_name(row["food_sci"])
NormalizedCom(row) == format_common_name(row["food_com"])

\* the Lookup Key of the row at 1-based position i
RowKey(table, i) == build_key(table[i]["food_sci"], table[i]["food_com"], i - 1)

\* C1: whatever the service answered, the table a run writes has the rows of
\* the table it read, in the same order, and every field of every row other
\* than the column the run owns holds the value read; before the write the
\* stored table is the one read.
C1_Frame ==
    /\ pc \notin {"idle", "done", "pure", "wiki_rows", "otol_rows"} => file = input
    /\ pc = "done" =>
          /\ Len(file) = Len(input)
          /\ \A i \in 1..Len(file) :
                /\ DOMAIN file[i] = Fieldnames
                /\ \A f \in Fieldnames \ {TargetField} : file[i][f] = input[i][f]

\* a two-row table rewritten by either script: the owned column of a row
\* changed to a non-empty value, and the one of another row to the empty string
C1_Witness ==
    /\ pc = "done"
    /\ Len(file) = 2
    /\ file[1][TargetField] \notin {"", input[1][TargetField]}
    /\ file[2][TargetField] = ""
    /\ file[1][index_field] = "r1" /\ file[2][index_field] = "r2"

\* the names of two rows agree: their normalized scientific names are equal and
\* not empty, or both are empty and their normalized common names are equal and
\* not empty
SameNames(a, b) ==
    \/ NormalizedSci(a) = NormalizedSci(b) /\ NormalizedSci(a) # ""
    \/ /\ NormalizedSci(a) = "" /\ NormalizedSci(b) = ""
       /\ NormalizedCom(a) = NormalizedCom(b) /\ NormalizedCom(a) # ""

\* the agreement as C4 words it: the common names of two rows without a
\* scientific name may be equal because both are empty
SameNamesAsWorded(a, b) ==
    \/ NormalizedSci(a) = NormalizedSci(b) /\ NormalizedSci(a) # ""
    \/ /\ NormalizedSci(a) = "" /\ NormalizedSci(b) = ""
       /\ NormalizedCom(a) = NormalizedCom(b)

KeyCollapsing(Agree(_, _)) ==
    pipeline = "wiki" =>
        \A i, j \in 1..Len(rows) :
            /\ RowKey(rows, i)[1] \in {"sci", "com", "row"}
            /\ Agree(rows[i], rows[j]) => RowKey(rows, i) = RowKey(rows, j)
            /\ (pc = "done" /\ RowKey(rows, i) = RowKey(rows, j))
                   => file[i][WIKI_FIELD] = file[j][WIKI_FIELD]

\* C4 (amended): in a knowledge-graph run every row has one Lookup Key; two
\* rows whose normalized scientific names are equal and not empty, or which
\* have no scientific name and whose normalized common names are equal and not
\* empty, have the same key; and when the run has written, two rows with the
\* same key hold the same value in the wiki synonym column.
C4_KeyCollapsing == KeyCollapsing(SameNames)

\* C4 as stated: the same, for every two rows without a scientific name whose
\* normalized common names are equal, the empty common name included.
C4_AsStated == KeyCollapsing(SameNamesAsWorded)

\* "Zea_mays" and " Zea mays" in rows that differ in every other field: one
\* key, and the same non-empty synonyms written to both
C4_Witness ==
    /\ pc = "done" /\ pipeline = "wiki"
    /\ Len(rows) = 2
    /\ rows[1]["food_sci"] # rows[2]["food_sci"]
    /\ rows[1]["food_com"] # rows[2]["food_com"]
    /\ RowKey(rows, 1) = RowKey(rows, 2)
    /\ file[1][WIKI_FIELD] # ""
    /\ file[1][WIKI_FIELD] = file[2][WIKI_FIELD]

\* the row has neither a scientific nor a common name
Nameless(row) == NormalizedSci(row) = "" /\ NormalizedCom(row) = ""

\* the requests of the log that were sent on behalf of the key
RequestsFor(key) ==
    {n \in 1..Len(requests) :
        \/ /\ requests[n].op \in {"titles", "title"}
           /\ \E t \in Range(requests[n].args) : key \in Range(KeysOfTitle(t))
        \/ /\ requests[n].op = "search"
           /\ requests[n].args[1] \in Range(QueriesOf(key))}

\* C5: in a knowledge-graph run a row without names has the key ("row", its
\* index), which no other row has, a row named by the digits of that index
\* included; the key has no candidate query and no title, is never unmatched
\* nor bound, no request is sent for it, a table of such rows sends no request
\* at all; and the run writes the empty string to the row's wiki column.
C5_NamelessRows ==
    pipeline = "wiki" =>
        /\ \A i \in 1..Len(rows) :
              Nameless(rows[i]) =>
                  /\ RowKey(rows, i) = <<"row", str(i - 1)>>
                  /\ \A j \in 1..Len(rows) : j # i => RowKey(rows, j) # RowKey(rows, i)
                  /\ ~Has(name_candidates, RowKey(rows, i))
                  /\ \A t \in Range(Keys(title_to_keys)) :
                         RowKey(rows, i) \notin Range(KeysOfTitle(t))
                  /\ RowKey(rows, i) \notin unmatched
                  /\ RowKey(rows, i) \notin DOMAIN key_to_entity
                  /\ RequestsFor(RowKey(rows, i)) = {}
                  /\ pc = "done" => file[i][WIKI_FIELD] = ""
        /\ (\A i \in 1..Len(rows) : Nameless(rows[i])) => requests = <<>>

\* the first row has no name and held synonyms, the second is named "0", the
\* first row's index: the run is over, the first row's synonyms are gone and
\* the second row has some
C5_Witness ==
    /\ pc = "done" /\ pipeline = "wiki"
    /\ Len(rows) = 2
    /\ Nameless(rows[1])
    /\ NormalizedSci(rows[2]) = "0"
    /\ input[1][WIKI_FIELD] # "" /\ file[1][WIKI_FIELD] = ""
    /\ RowKey(rows, 2) \in DOMAIN key_to_entity

\* the names of the taxonomic batch that starts at index s
NamesOfBatch(s) == Range(Slice(unique_names, s, CHUNK_SIZE))

\* the row at position i was not resolved: in the knowledge-graph run its key
\* is bound to no entity; in the taxonomic run it has no scientific name or the
\* request of its name's batch failed
Unresolved(i) ==
    IF pipeline = "wiki"
    THEN RowKey(rows, i) \notin DOMAIN key_to_entity
    ELSE \/ formatted_names[i] = ""
         \/ \E s \in failed_batches : formatted_names[i] \in NamesOfBatch(s)

\* what holds of a run that is over
WrittenOnce ==
    /\ writes <= 1
    /\ pc = "done" =>
          /\ writes = 1
          /\ \A i \in 1..Len(file) : Unresolved(i) => file[i][TargetField] = ""

\* C9: whichever requests fail, a run that is started comes to its end, the
\* table is written once and no more, and every row that was not resolved
\* holds the empty string in the column the run owns.
C9_TerminatesAndWrites == <>(pc = "done") /\ []WrittenOnce

\* a taxonomic run is over in which the request of the first batch failed: the
\* table was written once, and a named row of that batch, which held synonyms,
\* now holds none
C9_Witness ==
    /\ pc = "done" /\ pipeline = "otol" /\ writes = 1
    /\ 0 \in failed_batches
    /\ \E i \in 1..Len(file) :
          /\ formatted_names[i] \in NamesOfBatch(0)
          /\ input[i][OPEN_TREE_FIELD] # ""
          /\ file[i][OPEN_TREE_FIELD] = ""

\* the requests of kind op in the log, in the order sent
Sent(op) == SelectSeq(requests, LAMBDA r : r.op = op)

\* the batches of size `size` a list is cut into, in order
RECURSIVE BatchesOf(_, _, _)
BatchesOf(seq, from, size) ==
    IF from >= Len(seq) THEN <<>>
    ELSE <<Request("", Slice(seq, from, size))>> \o BatchesOf(seq, from + size, size)

ArgsOf(reqs) == [n \in 1..Len(reqs) |-> reqs[n].args]

\* a pass of the bulk loop that failed leaves the bindings alone
FailedPassKeepsBindings ==
    failed_batches' \ failed_batches # {} =>
        /\ key_to_entity' = key_to_entity
        /\ key_to_qid' = key_to_qid
        /\ qid_to_entity' = qid_to_entity
        /\ synonyms_cache' \in
              {[name \in NamesOfBatch(s) |-> ""] @@ synonyms_cache : s \in {start}}
        /\ start' > start
        /\ pc' = pc

BatchFailureIsolated ==
    /\ (pipeline = "wiki" /\ pc \in {"wiki_titles", "wiki_single"}) =>
          /\ \A s \in failed_batches :
                KeysOfBatch(Slice(Keys(title_to_keys), s, TITLE_CHUNK_SIZE)) \subseteq unmatched
          /\ pc = "wiki_single" =>
                ArgsOf(Sent("titles"))
                    = ArgsOf(BatchesOf(Keys(title_to_keys), 0, TITLE_CHUNK_SIZE))
    /\ (pipeline = "otol" /\ pc \in {"otol_batch", "done"}) =>
          /\ \A s \in failed_batches : \A name \in NamesOfBatch(s) :
                name \in DOMAIN synonyms_cache /\ synonyms_cache[name] = ""
          /\ pc = "done" =>
                ArgsOf(Sent("match_names")) = ArgsOf(BatchesOf(unique_names, 0, CHUNK_SIZE))

\* C10: when the request of a bulk batch fails, the pass binds nothing and
\* changes no binding, the loop goes on to the next batch; from then until the
\* resolver returns every key of every title of the batch is unmatched (in the
\* taxonomic run every name of the batch has the empty synonym string), and
\* when the loop is over every batch has been requested, in order.
C10_BatchFailureIsolated == []BatchFailureIsolated /\ [][FailedPassKeepsBindings]_vars

\* the resolver is about to return: of two batches the first failed, the second
\* was requested and bound its keys
C10_Witness ==
    /\ pipeline = "wiki" /\ pc = "wiki_single" /\ start >= Len(sorted_titles)
    /\ Len(title_to_keys) > TITLE_CHUNK_SIZE
    /\ failed_batches = {0}
    /\ Len(Sent("titles")) >= 2
    /\ DOMAIN key_to_entity # {}
    /\ KeysOfBatch(Slice(Keys(title_to_keys), 0, TITLE_CHUNK_SIZE)) # {}

\* C8: after any runs of the two scripts on one table, in any order, the
\* column a script wrote last holds what that script wrote, the column of a
\* script that never ran holds what the table held at first, and so does the
\* synonyms_ncbi column (at every point but between the opening of the table
\* for writing and its close).
C8_RunsDoNotClobber ==
    pc \notin {"wiki_rows", "otol_rows"} =>
        /\ Len(file) = Len(original)
        /\ Column(file, NCBI_FIELD) = Column(original, NCBI_FIELD)
        /\ Column(file, WIKI_FIELD) =
              IF written.wiki # <<>> THEN written.wiki[1]
              ELSE Column(original, WIKI_FIELD)
        /\ Column(file, OPEN_TREE_FIELD) =
              IF written.otol # <<>> THEN written.otol[1]
              ELSE Column(original, OPEN_TREE_FIELD)

\* both scripts ran, the later one is over, and each wrote synonyms that the
\* table did not hold at first; the table holds both
C8_Witness ==
    /\ pc = "done" /\ runs_left = 0
    /\ written.wiki # <<>> /\ written.otol # <<>>
    /\ Len(file) >= 1
    /\ file[1][WIKI_FIELD] \notin {"", original[1][WIKI_FIELD]}
    /\ file[1][OPEN_TREE_FIELD] \notin {"", original[1][OPEN_TREE_FIELD]}

(***************************************************************************)
(* Claims about an aborted run (SpecAbort)                                 *)
(***************************************************************************)

\* while a remote call may still be made, the table on disk is the one read
UntouchedUntilWrite ==
    pc \notin {"idle", "done", "aborted", "pure", "wiki_rows", "otol_rows"} => file = input

\* the step that aborts the run leaves the table read or the complete output
AbortLeavesWholeTable ==
    (pc # "aborted" /\ pc' = "aborted") =>
        \/ file' = input
        \/ pc \in {"wiki_rows", "otol_rows"} /\ file' = OutputRows

\* C11: the table file is not written before every remote call has returned and
\* the output rows are built, and a run aborted at any point leaves on disk the
\* table it read or the complete output, never a part of a table.
C11_AbortSafety == []UntouchedUntilWrite /\ [][AbortLeavesWholeTable]_vars

(***************************************************************************)
(* Claims about the order of the requests (Spec)                           *)
(***************************************************************************)

RECURSIVE SearchRound(_, _, _, _)
\* the searches the loop of lines 398-409 sends when the unmatched keys are
\* iterated in the given order and the service answers as `answers` says
SearchRound(order, cache, answers, sent) ==
    IF order = <<>> THEN sent
    ELSE LET found == SearchLoop(QueriesOf(Head(order)), cache, answers, <<>>)
         IN SearchRound(Tail(order), found.query_cache, answers, sent \o found.asked)

\* every candidate query of every unmatched key
UnmatchedQueries ==
    LET keys == CHOOSE order \in Orderings(unmatched) : TRUE
    IN Concat([i \in 1..Len(keys) |-> QueriesOf(keys[i])])

\* missing_qids of line 441
MissingQids ==
    UNION {Range(SynonymQidsOf(key)) : key \in DOMAIN key_to_entity} \ DOMAIN qid_to_entity

\* C12 (the requests): with the table and the service's answer to every
\* request fixed, the searches sent do not depend on the order in which the
\* unmatched keys are iterated, nor do the entity fetches depend on the order in
\* which the referenced identifiers are iterated.
C12_Determinism ==
    /\ (pc = "wiki_search" /\ searched = {}) =>
          \A answers \in AnswerChoices(UnmatchedQueries) :
              \A o1, o2 \in Orderings(unmatched) :
                  SearchRound(o1, <<>>, answers, <<>>) = SearchRound(o2, <<>>, answers, <<>>)
    /\ pc = "wiki_collect" =>
          \A o1, o2 \in Orderings(MissingQids) :
              BatchesOf(o1, 0, ENTITY_CHUNK_SIZE) = BatchesOf(o2, 0, ENTITY_CHUNK_SIZE)

(***************************************************************************)
(* Claims about title resolution (Spec)                                    *)
(***************************************************************************)

\* the response holds no entity whose enwiki title is the requested one
NoEntityFor(response, title) ==
    ~\E n \in 1..Len(response.entities) :
        LET e == response.entities[n]
        IN /\ ~e.missing
           /\ e.sitelink # NoStr
           /\ replace(e.sitelink[1], " ", "_") = title

MarkedMissing(response, title) ==
    \E n \in 1..Len(response.entities) :
        response.entities[n].missing /\ response.entities[n].title = title

\* a bulk pass whose response arrived queues every title the response does not
\* resolve
QueuedByBatch ==
    (pc = "wiki_titles" /\ start' = start + TITLE_CHUNK_SIZE) =>
        LET batch == Slice(Keys(title_to_keys), start, TITLE_CHUNK_SIZE)
        IN \A response \in BulkResponses(batch) :
              (response.ok /\ TitleBatchBinds(batch, response)) =>
                  \A i \in 1..Len(batch) :
                      (NoEntityFor(response, batch[i]) \/ MarkedMissing(response, batch[i]))
                          => batch[i] \in unresolved_titles'

\* a single lookup binds every key of its title, or leaves them all unmatched
SingleLookupSettles ==
    (pc = "wiki_single" /\ start' = start + 1) =>
        LET title == sorted_titles[start + 1]
            result == single_title_cache'[title]
            keys == Range(KeysOfTitle(title))
        IN /\ requests' = Append(requests, Request("title", <<title>>))
           /\ IF result.qid # NoStr
              THEN \A key \in keys : /\ key \in DOMAIN key_to_entity'
                                     /\ key_to_entity'[key] = result.entity
                                     /\ key_to_qid'[key] = result.qid[1]
              ELSE keys \subseteq unmatched'

BulkBeforeSingle ==
    \A i, j \in 1..Len(requests) :
        (requests[i].op = "title" /\ requests[j].op = "titles") => j < i

LookedUpOnce ==
    /\ pc = "wiki_single" => BulkBeforeSingle
    /\ (pc = "wiki_single" /\ start >= Len(sorted_titles)) =>
          /\ NoRepeats(ArgsOf(Sent("title")))
          /\ Range(ArgsOf(Sent("title"))) = {<<title>> : title \in unresolved_titles}
    /\ pc = "wiki_single" =>
          \A title \in DOMAIN single_title_cache :
              single_title_cache[title].qid = NoStr
                  => Range(KeysOfTitle(title)) \subseteq unmatched

\* C13: a title whose bulk response arrived without an entity for it, or marked
\* missing, is looked up singly exactly once, after every bulk request; a
\* resolved single lookup binds every key of the title and a failed one leaves
\* them all unmatched.
C13_BulkThenSingle == []LookedUpOnce /\ [][QueuedByBatch /\ SingleLookupSettles]_vars

C13_Witness ==
    /\ pc = "wiki_single" /\ start >= Len(sorted_titles)
    /\ Sent("titles") # <<>> /\ failed_batches = {}
    /\ \E title \in DOMAIN single_title_cache :
          /\ single_title_cache[title].qid # NoStr
          /\ Len(KeysOfTitle(title)) >= 2

(***************************************************************************)
(* Claims about the search fallback (Spec)                                 *)
(***************************************************************************)

\* one key's pass through the search loop
SearchInListOrder ==
    (pc = "wiki_search" /\ searched' # searched) =>
        LET key == CHOOSE k \in searched' \ searched : TRUE
            queries == QueriesOf(key)
            new == SubSeq(requests', Len(requests) + 1, Len(requests'))
            asked == [n \in 1..Len(new) |-> new[n].args[1]]
            yields(q) == q \in DOMAIN query_cache' /\ query_cache'[q] # NoStr
            hits == {j \in 1..Len(queries) : yields(queries[j])}
            tried == {j \in 1..Len(queries) : \A h \in hits : j <= h}
        IN /\ key \in unmatched
           /\ SubSeq(requests', 1, Len(requests)) = requests
           /\ \A n \in 1..Len(new) : /\ new[n].op = "search"
                                     /\ asked[n] \in Range(queries)
                                     /\ asked[n] \notin DOMAIN query_cache
           /\ \A m, n \in 1..Len(new) :
                 m < n => FirstIndex(queries, asked[m]) < FirstIndex(queries, asked[n])
           /\ \A n \in 1..Len(new) : FirstIndex(queries, asked[n]) \in tried
           /\ \A j \in tried : \/ queries[j] \in DOMAIN query_cache
                               \/ queries[j] \in Range(asked)
           /\ Has(fallback_qids', key) <=> hits # {}
           /\ hits # {} =>
                 Get(fallback_qids', key) = query_cache'[queries[CHOOSE h \in hits : h \in tried]][1]

\* a key the search gave no identifier is bound to nothing by the fallback
NoIdStaysUnbound ==
    (pc = "wiki_fetch" /\ pc' = "wiki_collect") =>
        \A key \in unmatched : ~Has(fallback_qids, key) => key \notin DOMAIN key_to_entity'

SearchedOnce ==
    /\ pc = "wiki_search" => NoRepeats(ArgsOf(Sent("search")))
    /\ (pc = "done" /\ pipeline = "wiki") =>
          \A i \in 1..Len(file) :
              (RowKey(rows, i) \in unmatched /\ RowKey(rows, i) \notin DOMAIN key_to_entity)
                  => file[i][WIKI_FIELD] = ""

\* C14: each unmatched key's candidates are tried in list order up to the first
\* that yields an identifier; no query string is sent to the search twice in a
\* run, a cached failure included; a key no candidate yields an identifier for
\* stays unbound and its synonym string is empty.
C14_FallbackSearch == []SearchedOnce /\ [][SearchInListOrder /\ NoIdStaysUnbound]_vars

C14_Witness ==
    /\ pc = "wiki_search" /\ searched = unmatched
    /\ \E k1, k2 \in unmatched :
          /\ k1 # k2
          /\ Len(QueriesOf(k1)) = 2 /\ Len(QueriesOf(k2)) = 1
          /\ QueriesOf(k2)[1] = QueriesOf(k1)[2]
          /\ query_cache[QueriesOf(k2)[1]] = NoStr
          /\ ~Has(fallback_qids, k2)

(***************************************************************************)
(* Claims about the match selection of the search (SpecPure)               *)
(***************************************************************************)

Least(S) == CHOOSE n \in S : \A m \in S : n <= m

\* the rank the selection is to pick in a non-empty result list
SelectedRank(query, results) ==
    LET label_hits == {n \in 1..Len(results) : lower(results[n].label) = lower(query)}
        text_hits == {n \in 1..Len(results) : lower(results[n].match) = lower(query)}
    IN IF label_hits # {} THEN Least(label_hits)
       ELSE IF text_hits # {} THEN Least(text_hits)
       ELSE 1

\* C15: search_entity_id returns the identifier of the first result whose label
\* is the query up to case, else of the first whose matched text is the query
\* up to case, else of the top result; a label hit at any rank beats a
\* matched-text hit at a better rank; an empty list or a failed request gives
\* no identifier.
C15_MatchSelection ==
    (fn = "search_entity_id" /\ ret # Pending) =>
        LET results == arg.response.search
        IN IF ~arg.response.ok \/ results = <<>>
           THEN ret = Returned(NoStr)
           ELSE ret = Returned(Some(results[SelectedRank(arg.query, results)].id))

C15_Witness ==
    /\ fn = "search_entity_id" /\ ret # Pending
    /\ arg.response.ok /\ Len(arg.response.search) = 3
    /\ lower(arg.response.search[1].match) = lower(arg.query)
    /\ lower(arg.response.search[1].label) # lower(arg.query)
    /\ lower(arg.response.search[2].label) # lower(arg.query)
    /\ lower(arg.response.search[3].label) = lower(arg.query)
    /\ ret = Returned(Some("Q3"))

(***************************************************************************)
(* Claims about the raw synonym list (Spec)                                *)
(***************************************************************************)

InGraph(qid) == \E n \in 1..Len(KnowledgeGraph) : KnowledgeGraph[n].id = qid

\* the English label the knowledge graph holds for an identifier
GraphLabel(qid) ==
    IF InGraph(qid)
    THEN KnowledgeGraph[CHOOSE n \in 1..Len(KnowledgeGraph) : KnowledgeGraph[n].id = qid].label
    ELSE NoStr

ReferencedQids == UNION {Range(SynonymQidsOf(key)) : key \in DOMAIN key_to_entity}

\* a run in which every key was bound by the title lookup and every referenced
\* entity of the graph was obtained: no request of such a run has failed
EveryCallAnswered ==
    /\ unmatched = {}
    /\ \A key \in Range(Keys(name_candidates)) : key \in DOMAIN key_to_entity
    /\ \A qid \in ReferencedQids : InGraph(qid) => qid \in DOMAIN entity_data

\* C16: when no request has failed, the raw synonym list of a key bound to E is
\* E's non-empty aliases in their order, then the English label of each P1420
\* item target of E in claim order that has one in the knowledge graph, also
\* for a target the title lookup had already put in the entity cache.
C16_RawList ==
    (pc = "wiki_write" /\ EveryCallAnswered) =>
        \A key \in DOMAIN key_to_entity :
            LET targets == extract_p1420_ids(key_to_entity[key])
                labelled == SelectSeq(targets, LAMBDA qid : GraphLabel(qid) # NoStr)
            IN CombinedOf(key) = extract_aliases(key_to_entity[key])
                                   \o [n \in 1..Len(labelled) |-> GraphLabel(labelled[n])[1]]

(***************************************************************************)
(* Claims about the taxonomic synonym string (Spec)                        *)
(***************************************************************************)

\* the Synonym Cleaner applied to the synonyms of the taxon selected for a name
CleanedTaxonString(name) ==
    LET best_match == select_best_match(TnrsIndex(name).matches)
    IN IF best_match = None THEN ""
       ELSE Join(filtered_synonyms(<<"sci", name>>, TaxonSynonyms(best_match)), "; ")

\* C17: the synonym string the taxonomic run writes for a row is the selected
\* taxon's synonym list cleaned by the Synonym Cleaner (trimmed, no empty
\* entry, no entry equal to the normalized scientific name up to case, no
\* duplicates up to case, joined with "; "), or empty when nothing was returned.
C17_TaxonomicStringCleaned ==
    (pc = "done" /\ pipeline = "otol") =>
        \A i \in 1..Len(file) :
            file[i][OPEN_TREE_FIELD] \in {"", CleanedTaxonString(formatted_names[i])}

(***************************************************************************)
(* Claims about batching (Spec)                                            *)
(***************************************************************************)

\* the places of a string in the batches sent
PlacesOf(x, batches) ==
    {<<n, k>> \in (1..Len(batches)) \X (1..Len(Concat(batches))) :
        k <= Len(batches[n]) /\ batches[n][k] = x}

\* batches of 1..size strings, all but the last of size `size`, carrying only
\* strings of the list, none of them twice
WellCut(batches, strings, size) ==
    /\ \A n \in 1..Len(batches) : Len(batches[n]) \in 1..size
    /\ \A n \in 1..(Len(batches) - 1) : Len(batches[n]) = size
    /\ Range(Concat(batches)) \subseteq Range(strings)
    /\ \A x \in Range(strings) : Cardinality(PlacesOf(x, batches)) <= 1

\* every string is carried by exactly one batch
Partition(batches, strings, size) ==
    /\ WellCut(batches, strings, size)
    /\ \A x \in Range(strings) : Cardinality(PlacesOf(x, batches)) = 1

FetchedOnce ==
    (pc = "wiki_fetch" /\ start >= Len(qids_list)) =>
        LET batches == ArgsOf(Sent("ids"))
        IN /\ \A n \in 1..Len(batches) : Len(batches[n]) \in 1..ENTITY_CHUNK_SIZE
           /\ \A qid \in Range(Values(fallback_qids)) :
                 Cardinality(PlacesOf(qid, batches)) = 1

\* the bindings made from what the fetch returned
FallbackBinds ==
    (pc = "wiki_fetch" /\ pc' = "wiki_collect") =>
        \A n \in 1..Len(fallback_qids) :
            LET key == fallback_qids[n][1]
                qid == fallback_qids[n][2]
            IN IF qid \in DOMAIN entities
               THEN key \in DOMAIN key_to_entity' /\ key_to_entity'[key] = entities[qid]
               ELSE key \notin DOMAIN key_to_entity'

\* C19: the identifiers the search round found are fetched in batches of at
\* most a full batch, each distinct identifier requested exactly once, also
\* when several keys got the same identifier; a key whose identifier's entity
\* is returned is bound to it, a key whose entity is not returned stays unbound.
C19_FallbackFetch == []FetchedOnce /\ [][FallbackBinds]_vars

(***************************************************************************)
(* Claims about responses that lack fields (SpecPure)                      *)
(***************************************************************************)

\* C20: a name whose position the response lacks, whose result has no
\* matches, or whose selected match has no taxon or no synonym list gets the
\* empty list, and the other names of the batch get their taxon's synonyms; an
\* entity without aliases gives no alias, one without P1420 claims no
\* identifier, and a target without an English label adds nothing to the list.
C20_MissingFields ==
    /\ (fn = "fetch_synonyms_batch" /\ ret # Pending) =>
          LET results == arg.response.results
          IN /\ DOMAIN ret.value = Range(arg.names)
             /\ \A i \in 1..Len(arg.names) :
                   ret.value[arg.names[i]] =
                       IF i <= Len(results) /\ results[i] = FullResult
                       THEN <<"Zea", "Zea mays mays">>
                       ELSE <<>>
    /\ (fn = "entity_fields" /\ ret # Pending) =>
          /\ "aliases" \notin DOMAIN arg.entity => ret.value.aliases = <<>>
          /\ "p1420" \notin DOMAIN arg.entity => ret.value.synonym_qids = <<>>
          /\ (\/ arg.target = None
              \/ "label" \notin DOMAIN arg.target
              \/ arg.target.label = NoStr) => ret.value.combined = ret.value.aliases
          /\ ("aliases" \in DOMAIN arg.entity /\ arg.target # None
                /\ "label" \in DOMAIN arg.target /\ arg.target.label # NoStr)
                => ret.value.combined = <<"maize", "corn">>

C20_Witness ==
    /\ fn = "fetch_synonyms_batch" /\ ret # Pending
    /\ Len(arg.response.results) = 1 /\ Len(arg.names) = 2
    /\ arg.response.results[1] = FullResult
    /\ ret.value[arg.names[1]] = <<"Zea", "Zea mays mays">>
    /\ ret.value[arg.names[2]] = <<>>

(***************************************************************************)
(* Claims about the keys the primary resolver returns (SpecMarked)         *)
(***************************************************************************)

\* every Lookup Key of the title-to-keys mapping
MappedKeys == UNION {Range(KeysOfTitle(title)) : title \in Range(Keys(title_to_keys))}

\* fetch_entities_for_titles is about to return (line 299)
ResolverReturns == pc = "wiki_single" /\ start >= Len(sorted_titles)

\* C21: when fetch_entities_for_titles returns, whatever the responses were
\* (responses that mark missing a title that the same or another batch
\* resolved included), every key of the mapping is bound to an entity or in
\* the unmatched set and never both, the keys bound are the keys with an
\* identifier, and every bound identifier is in the entity cache returned.
C21_KeysPartitioned ==
    ResolverReturns =>
        /\ \A key \in MappedKeys : (key \in DOMAIN key_to_entity) # (key \in unmatched)
        /\ DOMAIN key_to_entity = DOMAIN key_to_qid
        /\ \A key \in DOMAIN key_to_qid : key_to_qid[key] \in DOMAIN qid_to_entity

=============================================================================
